---- MODULE Spec2Model ----
(***************************************************************************)
(* The audio session engine of ha-openai-realtime (ESPHome components      *)
(* voice_assistant_websocket and voice_assistant_webrtc).                  *)
(*                                                                         *)
(* One component instance is modelled; `variant` says which of the two     *)
(* classes it is.  The two classes keep the same private fields, so the    *)
(* variables carry the fields' names; websocket_client_ / peer_handle_ is  *)
(* the variable `handle` (TRUE = non-null).                                *)
(*                                                                         *)
(* Every handler of the source is an operator from a state record to a     *)
(* state record, composed exactly as the source nests its calls; an action *)
(* of the model is one whole handler run to completion.                    *)
(***************************************************************************)
EXTENDS Integers, Sequences, FiniteSets, TLC

---------------------------------------------------------------------------
(* Program constants *)

MAX_RECONNECT_ATTEMPTS == 5
RECONNECT_DELAY_MS == 5000
AUTO_STOP_INACTIVITY_MS == 20000
MICROPHONE_SAMPLE_RATE == 16000
INPUT_SAMPLE_RATE == 24000
BYTES_PER_SAMPLE == 2

(* Bounds of the model *)

\* The queue capacity.  The source sets 10 (WebSocket) and 68 (WebRTC); the
\* model runs the same code with a small capacity so that a full queue is
\* reached within MaxChunks received chunks.
MAX_QUEUE_SIZE == 2
\* Audio chunks the transport delivers in one run.
MaxChunks == 3
\* millis() advances in steps of TickMs up to MaxTicks steps.
MaxTicks == 3
\* Largest number of mono samples in one received chunk.
MaxMono == 2
\* Largest microphone frame, in stereo sample pairs.
MaxPairs == 3
\* pc_ids the signalling server hands out
MaxPcIds == 2

TickMs == AUTO_STOP_INACTIVITY_MS \div 2
MaxNow == TickMs * (MaxTicks + 1)

---------------------------------------------------------------------------
(* Values *)

IDLE == "Idle"
STARTING == "Starting"
SIGNALLING == "Signalling"
RUNNING == "Running"
STOPPING == "Stopping"
ERROR == "Error"
DISCONNECTED == "Disconnected"

States == {IDLE, STARTING, SIGNALLING, RUNNING, STOPPING, ERROR, DISCONNECTED}

WS == "WebSocket"
RTC == "WebRTC"

\* Mono sample counts of a received wire chunk (2 bytes each).
MonoCounts == 1..MaxMono
\* Bytes one converted WebRTC chunk can take: 2 channels * 4 bytes per sample.
Stride == 8 * MaxMono
\* Free space of the speaker's ring buffer when a handler runs.
FreeLevels == {0, 2, 6, Stride}

Min(a, b) == IF a < b THEN a ELSE b
Max(a, b) == IF a > b THEN a ELSE b

RECURSIVE SumLen(_)
SumLen(q) == IF q = <<>> THEN 0 ELSE Len(Head(q)) + SumLen(Tail(q))

RECURSIVE Flatten(_)
Flatten(q) == IF q = <<>> THEN <<>> ELSE Head(q) \o Flatten(Tail(q))

---------------------------------------------------------------------------
(* State *)

VARIABLES
  variant,                    \* which class the instance is
  state_,
  handle,                     \* websocket_client_ / peer_handle_ is non-null
  pending_start_,
  pending_disconnect_,
  reconnect_pending_,
  explicit_disconnect_,
  reconnect_attempts_,
  last_reconnect_attempt_,
  last_speaker_audio_time_,
  audio_queue_,               \* sequence of chunks, a chunk a sequence of bytes
  output_stereo_buffer_,      \* WebRTC: output_stereo_buffer_.size()
  afe_handle_,                \* WebRTC: the AFE is initialised
  pc_id_,                     \* PipecatSignaling::pc_id_; 0 is the empty string
  signaling_peer_handle_,     \* PipecatSignaling::peer_handle_ is non-null
  \* the environment
  now,                        \* millis()
  link,                       \* the transport library holds a connection
  speaker,                    \* "stopped" or "running"
  crashed,                    \* the firmware aborted
  \* bookkeeping for the properties
  delivered,                  \* chunks received since the queue was last empty
  hi_played,                  \* newest byte the speaker accepted before `op`
  stop_requested,             \* stop() ran and loop() has not torn down yet
  disc_count,                 \* consecutive disconnects reported since the
                              \* last start(), stop() or connection
  reconn_count,               \* reconnect connection attempts since start()
  heard,                      \* last_speaker_audio_time_ was recorded since
                              \* the last start()
  quiet_since,                \* while Running: millis() when the state became
                              \* Running or audio was last received; else 0
  issued,                     \* pc_ids the signalling server has handed out
  attempt_pc,                 \* the pc_id stored by an offer exchange of this
                              \* connection attempt; 0 when there is none
  offer_failed,               \* an offer exchange of this attempt failed
  ice_failed,                 \* a candidate submission of this attempt failed
  op,                         \* the handler the last step ran
  pre,                        \* state_ when that handler was entered
  log,                        \* what that handler did, in order
  held_pre,                   \* bytes in audio_queue_ when it was entered
  played,                     \* the bytes the speaker accepted in it, in order
  offered,                    \* bytes it passed to speaker_->play as new audio
  rejected,                   \* bytes it did not queue, the queue being full
  cleared,                    \* bytes its stop() removed from the queue
  tasks                       \* where each task stands inside a handler

vars == <<variant, state_, handle, pending_start_, pending_disconnect_,
          reconnect_pending_, explicit_disconnect_, reconnect_attempts_,
          last_reconnect_attempt_, last_speaker_audio_time_, audio_queue_,
          output_stereo_buffer_, afe_handle_, now, link, speaker, crashed,
          delivered, hi_played, stop_requested, disc_count, reconn_count,
          heard, quiet_since, pc_id_, signaling_peer_handle_, issued,
          attempt_pc,
          offer_failed, ice_failed,
          op, pre, log, held_pre, played, offered, rejected, cleared,
          tasks>>

\* The state as a record, for the handlers.  `free` is the free space of the
\* speaker's ring buffer during the handler: speaker_->play takes from it.
\* `ub` is what a write past the end of a vector does during the handler.
Cur ==
  [variant |-> variant, state_ |-> state_, handle |-> handle,
   pending_start_ |-> pending_start_,
   pending_disconnect_ |-> pending_disconnect_,
   reconnect_pending_ |-> reconnect_pending_,
   explicit_disconnect_ |-> explicit_disconnect_,
   reconnect_attempts_ |-> reconnect_attempts_,
   last_reconnect_attempt_ |-> last_reconnect_attempt_,
   last_speaker_audio_time_ |-> last_speaker_audio_time_,
   audio_queue_ |-> audio_queue_,
   output_stereo_buffer_ |-> output_stereo_buffer_,
   afe_handle_ |-> afe_handle_,
   now |-> now, link |-> link, speaker |-> speaker, crashed |-> crashed,
   delivered |-> delivered, hi_played |-> hi_played,
   stop_requested |-> stop_requested, disc_count |-> disc_count,
   reconn_count |-> reconn_count, quiet_since |-> quiet_since,
   heard |-> heard,
   pc_id_ |-> pc_id_, signaling_peer_handle_ |-> signaling_peer_handle_,
   issued |-> issued, attempt_pc |-> attempt_pc,
   offer_failed |-> offer_failed, ice_failed |-> ice_failed,
   op |-> op, pre |-> pre, log |-> log,
   held_pre |-> held_pre, played |-> played, offered |-> offered,
   rejected |-> rejected, cleared |-> cleared, tasks |-> tasks,
   free |-> 0, ub |-> "silent"]

Commit(n) ==
  /\ variant' = n.variant
  /\ state_' = n.state_
  /\ handle' = n.handle
  /\ pending_start_' = n.pending_start_
  /\ pending_disconnect_' = n.pending_disconnect_
  /\ reconnect_pending_' = n.reconnect_pending_
  /\ explicit_disconnect_' = n.explicit_disconnect_
  /\ reconnect_attempts_' = n.reconnect_attempts_
  /\ last_reconnect_attempt_' = n.last_reconnect_attempt_
  /\ last_speaker_audio_time_' = n.last_speaker_audio_time_
  /\ audio_queue_' = n.audio_queue_
  /\ output_stereo_buffer_' = n.output_stereo_buffer_
  /\ afe_handle_' = n.afe_handle_
  /\ now' = n.now
  /\ link' = n.link
  /\ speaker' = n.speaker
  /\ crashed' = n.crashed
  /\ delivered' = n.delivered
  /\ hi_played' = n.hi_played
  /\ held_pre' = n.held_pre
  /\ played' = n.played
  /\ offered' = n.offered
  /\ rejected' = n.rejected
  /\ cleared' = n.cleared
  /\ stop_requested' = n.stop_requested
  /\ disc_count' = n.disc_count
  /\ reconn_count' = n.reconn_count
  /\ quiet_since' = IF n.state_ = RUNNING THEN n.quiet_since ELSE 0
  /\ heard' = n.heard
  /\ pc_id_' = n.pc_id_
  /\ signaling_peer_handle_' = n.signaling_peer_handle_
  /\ issued' = n.issued
  /\ attempt_pc' = n.attempt_pc
  /\ offer_failed' = n.offer_failed
  /\ ice_failed' = n.ice_failed
  /\ op' = n.op
  /\ pre' = n.pre
  /\ log' = n.log
  /\ tasks' = n.tasks

RECURSIVE SeqMax(_)
SeqMax(q) == IF q = <<>> THEN 0 ELSE Max(Head(q), SeqMax(Tail(q)))

\* A handler is entered: the record of what the last handler did starts anew.
\* Bytes are numbered in the order of delivery; the numbering starts again
\* whenever the queue is empty (every byte received before has been played
\* or dropped by then).
Enter(name, free) ==
  [Cur EXCEPT !.op = name, !.pre = state_, !.log = <<>>, !.free = free,
              !.held_pre = SumLen(audio_queue_),
              !.played = <<>>, !.offered = 0, !.rejected = 0, !.cleared = 0,
              !.delivered = IF audio_queue_ = <<>> THEN 0 ELSE @,
              !.hi_played = IF audio_queue_ = <<>> THEN 0
                            ELSE Max(@, SeqMax(played))]

Emit(s, k, a, b) ==
  [s EXCEPT !.log = Append(@, [k |-> k, a |-> a, b |-> b, n |-> 0])]

\* An entry that carries a number (bytes sent to the transport).
EmitN(s, k, n) ==
  [s EXCEPT !.log = Append(@, [k |-> k, a |-> "", b |-> "", n |-> n])]

\* this->state_ = to
SetState(s, to) == [Emit(s, "state", s.state_, to) EXCEPT !.state_ = to]

\* if (this->state_callback_) this->state_callback_(this->state_)
Callback(s) == Emit(s, "callback", s.state_, "")

\* this->xxx_trigger_.trigger()
Trigger(s, name) == Emit(s, "trigger", name, "")

\* millis()
millis(s) == s.now

\* The transport reports `ev`: the entry keeps the state it comes upon.
Event(s, ev) == Emit(s, "event", ev, s.state_)

\* The transport reports text frame number m.
TextEvent(s, m) ==
  [s EXCEPT !.log = Append(@, [k |-> "event", a |-> "TEXT", b |-> s.state_,
                               n |-> m])]

\* The microphone delivers n stereo sample pairs.
MicFrame(s, n) == EmitN(s, "mic", n)

\* process_received_audio_ is called with a chunk of m samples: the entry
\* keeps the state it comes upon.
Chunk(s, m) ==
  [s EXCEPT !.log = Append(@, [k |-> "audio", a |-> "", b |-> s.state_,
                               n |-> m])]

\* loop() comes to one of its blocks
Step(s, name) == Emit(s, "step", name, "")

\* Bookkeeping: the transport reports a disconnect; it counts as one more
\* consecutive disconnect when the session was up or already disconnected,
\* unless a stop was requested.
CountDisconnect(s) ==
  IF s.stop_requested \/ s.explicit_disconnect_
     \/ s.state_ \notin {RUNNING, DISCONNECTED}
  THEN s.disc_count
  ELSE Min(s.disc_count + 1, MAX_RECONNECT_ATTEMPTS)

---------------------------------------------------------------------------
(* The speaker (external): play() copies into a ring buffer what fits. *)

\* the return value of speaker_->play(bytes, Len(bytes))
Written(s, bytes) == Min(s.free, Len(bytes))

\* the effect of speaker_->play(bytes, Len(bytes))
Play(s, bytes) ==
  LET k == Written(s, bytes)
  IN [s EXCEPT !.free = @ - k, !.played = @ \o SubSeq(bytes, 1, k)]

\* A byte left in a buffer by an earlier chunk.
StaleByte == 0

\* The bytes of the chunk the transport delivers next: `n` bytes, numbered
\* in the order of delivery.
ChunkBytes(s, n) == [j \in 1..n |-> s.delivered * Stride + j]

---------------------------------------------------------------------------
(* VoiceAssistantWebSocket *)

\* is_connected(): the client exists and the library reports a connection
WS_is_connected(s) == s.handle /\ s.link

\* disconnect_websocket_() that destroys a connected client only
WS_disconnect_websocket_connected_only_(s) ==
  IF s.handle /\ s.link
  THEN [Emit(s, "destroy", "started", "") EXCEPT !.handle = FALSE,
                                                  !.link = FALSE]
  ELSE s

\* disconnect_websocket_(): close or stop, then destroy the client
WS_disconnect_websocket_(s) ==
  IF s.handle
  THEN [Emit(s, "destroy", "started", "") EXCEPT !.handle = FALSE,
                                                  !.link = FALSE]
  ELSE s

\* connect_websocket_(); `out` is what the ESP-IDF client calls return
WS_connect_websocket_(s, out, why) ==
  IF s.handle
  THEN [s EXCEPT !.pending_disconnect_ = TRUE,
                 !.reconnect_pending_ = TRUE,
                 !.last_reconnect_attempt_ = millis(s)]
  ELSE IF out = "init_fail"
  THEN Callback(SetState(Emit(s, "connect", why, out), ERROR))
  ELSE IF out = "start_fail"
  THEN Callback(SetState(
         Emit(Emit(s, "connect", why, out), "destroy", "unstarted", ""),
         ERROR))
  ELSE [Emit(s, "connect", why, out) EXCEPT !.handle = TRUE, !.link = FALSE]

\* start() without the early return of lines 138-141
WS_start_unguarded(s, out) ==
  LET s1 == SetState(s, STARTING)
      s2 == [s1 EXCEPT !.last_speaker_audio_time_ = 0,
                       !.explicit_disconnect_ = FALSE,
                       !.speaker = "running",
                       !.disc_count = 0,
                       !.reconn_count = 0,
                       !.heard = FALSE]
  IN WS_connect_websocket_(Callback(s2), out, "start")

\* start()
WS_start(s, out) ==
  IF s.state_ = RUNNING
  THEN s
  ELSE LET s1 == SetState(s, STARTING)
           s2 == [s1 EXCEPT !.last_speaker_audio_time_ = 0,
                            !.explicit_disconnect_ = FALSE,
                            !.speaker = "running",
                            !.disc_count = 0,
                            !.reconn_count = 0,
                            !.heard = FALSE]
       IN WS_connect_websocket_(Callback(s2), out, "start")

\* stop() that tears the client down itself instead of leaving it to loop()
WS_stop_synchronous(s) ==
  IF s.state_ = IDLE
  THEN s
  ELSE LET s1 == SetState(s, STOPPING)
           s2 == [s1 EXCEPT !.speaker = "stopped",
                            !.cleared = @ + SumLen(s1.audio_queue_),
                            !.audio_queue_ = <<>>]
       IN WS_disconnect_websocket_(
            [Callback(s2) EXCEPT !.stop_requested = TRUE, !.disc_count = 0])

\* stop()
WS_stop(s) ==
  IF s.state_ = IDLE
  THEN s
  ELSE LET s1 == SetState(s, STOPPING)
           s2 == [s1 EXCEPT !.speaker = "stopped",
                            !.cleared = @ + SumLen(s1.audio_queue_),
                            !.audio_queue_ = <<>>]
       IN [Callback(s2) EXCEPT !.pending_disconnect_ = TRUE,
                               !.stop_requested = TRUE,
                               !.disc_count = 0]

\* request_start()
WS_request_start(s) == [s EXCEPT !.pending_start_ = TRUE]

\* loop(), lines 57-76: offer the front chunk of the queue to the speaker
WS_loop_queue_(s) ==
  IF s.speaker = "running" /\ s.audio_queue_ # <<>>
  THEN LET q == Head(s.audio_queue_)
           w == Written(s, q)
           s1 == Play(s, q)
       IN IF w = Len(q)
          THEN [s1 EXCEPT !.audio_queue_ = Tail(@)]
          ELSE IF w > 0
          THEN [s1 EXCEPT !.audio_queue_ =
                            Append(Tail(@), SubSeq(q, w + 1, Len(q)))]
          ELSE s1
  ELSE s

\* loop(), lines 84-95: the reconnect branch
WS_loop_reconnect_(s, out) ==
  IF /\ s.reconnect_pending_
     /\ ~s.pending_disconnect_
     /\ ~s.handle
     /\ (millis(s) - s.last_reconnect_attempt_) > RECONNECT_DELAY_MS
     /\ s.reconnect_attempts_ < MAX_RECONNECT_ATTEMPTS
  THEN WS_connect_websocket_(
         [s EXCEPT !.reconnect_pending_ = FALSE,
                   !.last_reconnect_attempt_ = millis(s),
                   !.reconnect_attempts_ = @ + 1,
                   !.reconn_count = @ + 1],
         out, "reconnect")
  ELSE s

\* loop(), lines 103-117: auto-stop after inactivity
WS_loop_auto_stop_(s) ==
  IF /\ s.state_ = RUNNING
     /\ s.last_speaker_audio_time_ > 0
     /\ (millis(s) - s.last_speaker_audio_time_) > AUTO_STOP_INACTIVITY_MS
  THEN WS_stop(Emit(s, "auto_stop", "", ""))
  ELSE s

\* the pending teardown without the reset of reconnect_pending_ (line 43)
WS_loop_teardown_keeps_reconnect_(s) ==
  LET s1 == WS_disconnect_websocket_([s EXCEPT !.pending_disconnect_ = FALSE])
      s2 == [SetState(s1, IDLE) EXCEPT !.reconnect_attempts_ = 0,
                                       !.stop_requested = FALSE]
  IN Trigger(Callback(s2), "stopped")

\* loop(), lines 33-54: the pending teardown
WS_loop_teardown_(s) ==
  LET s1 == WS_disconnect_websocket_([s EXCEPT !.pending_disconnect_ = FALSE])
      s2 == [SetState(s1, IDLE) EXCEPT !.reconnect_attempts_ = 0,
                                       !.reconnect_pending_ = FALSE,
                                       !.stop_requested = FALSE]
  IN Trigger(Callback(s2), "stopped")

\* loop(), lines 78-117: what follows the queue block
WS_loop_after_queue_(s1, out) ==
  LET s2 == IF s1.pending_start_ /\ s1.state_ = IDLE
            THEN WS_start([Step(s1, "pending_start")
                             EXCEPT !.pending_start_ = FALSE], out)
            ELSE Step(s1, "pending_start")
      s3 == WS_loop_reconnect_(Step(s2, "reconnect"), out)
  IN WS_loop_auto_stop_(Step(s3, "auto_stop"))

\* loop()
WS_loop(s, out) ==
  IF s.pending_disconnect_
  THEN WS_loop_teardown_(Step(s, "teardown"))
  ELSE WS_loop_after_queue_(WS_loop_queue_(Step(s, "queue")), out)

\* process_received_audio_, lines 355-378: drain the queue first
RECURSIVE WS_drain_queue_(_)
WS_drain_queue_(s) ==
  IF s.audio_queue_ = <<>>
  THEN s
  ELSE LET q == Head(s.audio_queue_)
           w == Written(s, q)
           s1 == Play(s, q)
       IN IF w = Len(q)
          THEN WS_drain_queue_([s1 EXCEPT !.audio_queue_ = Tail(@)])
          ELSE IF w > 0
          THEN [s1 EXCEPT !.audio_queue_ =
                            Append(Tail(@), SubSeq(q, w + 1, Len(q)))]
          ELSE s1

\* process_received_audio_, lines 384-408: play the new chunk, queue the rest
WS_play_or_queue_(s, data) ==
  LET w == Written(s, data)
      s1 == [Play(s, data) EXCEPT !.offered = @ + Len(data)]
  IN IF w = 0 /\ Len(data) > 0
     THEN [s1 EXCEPT !.audio_queue_ = Append(@, data)]
     ELSE IF w < Len(data)
     THEN [s1 EXCEPT !.audio_queue_ =
                       Append(@, SubSeq(data, w + 1, Len(data)))]
     ELSE s1

\* process_received_audio_(data, len), len = 2 * m bytes
WS_process_received_audio_(s, m) ==
  LET data == ChunkBytes(s, BYTES_PER_SAMPLE * m)
      s0 == [Chunk(s, m) EXCEPT !.delivered = @ + 1, !.quiet_since = millis(s)]
  IN IF s.state_ # RUNNING
     THEN s0
     ELSE LET s1 == [s0 EXCEPT !.speaker = "running"]
              s2 == WS_drain_queue_(s1)
              s3 == [s2 EXCEPT !.last_speaker_audio_time_ = millis(s2),
                               !.heard = TRUE]
          IN WS_play_or_queue_(s3, data)

\* send_audio_chunk_(data, len)
WS_send_audio_chunk_(s, len) ==
  IF ~WS_is_connected(s) \/ ~s.handle
  THEN s
  ELSE EmitN(s, "send", len)

WS_on_microphone_data_any_state_(s, n) ==
  IF ~WS_is_connected(s)
  THEN s
  ELSE WS_send_audio_chunk_(
         s, ((n * INPUT_SAMPLE_RATE) \div MICROPHONE_SAMPLE_RATE)
              * BYTES_PER_SAMPLE)

\* on_microphone_data_(data), data of n stereo 32-bit sample pairs
WS_on_microphone_data_(s, n) ==
  IF ~WS_is_connected(s) \/ s.state_ # RUNNING
  THEN s
  ELSE LET resampled_24khz_samples ==
             (n * INPUT_SAMPLE_RATE) \div MICROPHONE_SAMPLE_RATE
       IN WS_send_audio_chunk_(s, resampled_24khz_samples * BYTES_PER_SAMPLE)

\* A text frame is a sequence of JSON tokens; " " is one space.  The frames
\* considered are the objects with the one member "type", written with up to
\* one space before the colon and up to MaxSpaces after it, whole or cut off
\* before the closing brace.
MaxSpaces == 1

Interrupt == "\"interrupt\""
Disconnect == "\"disconnect\""
TypeValues == <<Interrupt, Disconnect, "\"ping\"">>

Spaces(k) == [i \in 1..k |-> " "]

TextFrame(b, a, v, closed) ==
  <<"{", "\"type\"">> \o Spaces(b) \o <<":">> \o Spaces(a) \o <<v>>
    \o (IF closed THEN <<"}">> ELSE <<>>)

\* The frames are numbered from 0.
TextFrameCount == 2 * (MaxSpaces + 1) * Len(TypeValues) * 2

TextFrameOf(m) ==
  TextFrame(m % 2,
            (m \div 2) % (MaxSpaces + 1),
            TypeValues[((m \div (2 * (MaxSpaces + 1))) % Len(TypeValues)) + 1],
            (m \div (2 * (MaxSpaces + 1) * Len(TypeValues))) % 2 = 0)

\* message.find(pattern) != std::string::npos
Find(message, pattern) ==
  \E i \in 1..(Len(message) - Len(pattern) + 1) :
    SubSeq(message, i, i + Len(pattern) - 1) = pattern

\* The two spellings of a member "type" the handler searches for.
TypeCompact(v) == <<"\"type\"", ":", v>>
TypeSpaced(v) == <<"\"type\"", ":", " ", v>>

\* The text-frame branch of WEBSOCKET_EVENT_DATA (op_code 0x01).
WS_handle_text_(s, message) ==
  IF Find(message, TypeCompact(Interrupt))
     \/ Find(message, TypeSpaced(Interrupt))
  THEN [s EXCEPT !.speaker = "stopped"]
  ELSE IF Find(message, TypeCompact(Disconnect))
          \/ Find(message, TypeSpaced(Disconnect))
  THEN WS_stop([s EXCEPT !.explicit_disconnect_ = TRUE])
  ELSE s

\* The frames the named text events stand for.
NamedText(ev) ==
  CASE ev = "TEXT_INTERRUPT" -> TextFrame(0, 1, Interrupt, TRUE)
    [] ev = "TEXT_DISCONNECT" -> TextFrame(0, 1, Disconnect, TRUE)
    [] ev = "TEXT_OTHER" -> TextFrame(0, 1, TypeValues[3], TRUE)

\* The events the ESP-IDF WebSocket client can deliver.
WS_Events ==
  {"BEFORE_CONNECT", "CONNECTED", "DISCONNECTED", "ERROR",
   "TEXT_INTERRUPT", "TEXT_DISCONNECT", "TEXT_OTHER", "OTHER_OPCODE"}

\* What the library lets happen: events need a client, data a connection.
WS_EventPossible(s, ev) ==
  /\ s.handle
  /\ ev \in {"BEFORE_CONNECT", "CONNECTED"} => ~s.link
  /\ ev \in {"DATA", "TEXT", "TEXT_INTERRUPT", "TEXT_DISCONNECT",
             "TEXT_OTHER", "OTHER_OPCODE"} => s.link

\* handle_websocket_event_(event_id, event_data); m: samples of a binary
\* frame, number of a text frame
WS_handle_websocket_event_(s, ev, m) ==
  CASE ev = "CONNECTED" ->
         LET s1 == [SetState(s, RUNNING) EXCEPT !.reconnect_attempts_ = 0,
                                                !.reconnect_pending_ = FALSE,
                                                !.link = TRUE,
                                                !.disc_count = 0,
                                                !.reconn_count = 0,
                                                !.quiet_since = millis(s)]
         IN Trigger(Callback(s1), "connected")
    [] ev = "DISCONNECTED" ->
         LET s1 == [SetState(s, DISCONNECTED) EXCEPT
                      !.link = FALSE,
                      !.disc_count = CountDisconnect(s)]
             s2 == Trigger(Callback(s1), "disconnected")
         IN IF ~s2.explicit_disconnect_
               /\ (s2.state_ = RUNNING \/ s2.state_ = DISCONNECTED)
            THEN [s2 EXCEPT !.reconnect_pending_ = TRUE,
                            !.last_reconnect_attempt_ = millis(s2)]
            ELSE IF s2.explicit_disconnect_
            THEN [s2 EXCEPT !.explicit_disconnect_ = FALSE]
            ELSE s2
    [] ev = "DATA" -> WS_process_received_audio_(s, m)
    [] ev = "TEXT" -> WS_handle_text_(s, TextFrameOf(m))
    [] ev \in {"TEXT_INTERRUPT", "TEXT_DISCONNECT", "TEXT_OTHER"} ->
         WS_handle_text_(s, NamedText(ev))
    [] ev = "ERROR" ->
         LET s1 == Trigger(Callback(SetState(s, ERROR)), "error")
         IN [s1 EXCEPT !.reconnect_pending_ = TRUE,
                       !.last_reconnect_attempt_ = millis(s1)]
    [] OTHER -> s


---------------------------------------------------------------------------
(* VoiceAssistantWebRTC *)

\* is_connected()
RTC_is_connected(s) == s.handle /\ s.state_ = RUNNING

\* stop()
RTC_stop(s) ==
  IF s.state_ = IDLE
  THEN s
  ELSE [SetState([s EXCEPT !.explicit_disconnect_ = TRUE], STOPPING)
          EXCEPT !.pending_disconnect_ = TRUE, !.stop_requested = TRUE,
                 !.disc_count = 0]

\* request_start()
RTC_request_start(s) == [s EXCEPT !.pending_start_ = TRUE]

\* process_received_audio_(data, len), len = 2 * m bytes
RTC_process_received_audio_(s, m) ==
  LET s0 == [Chunk(s, m) EXCEPT !.delivered = @ + 1, !.quiet_since = millis(s)]
  IN IF s.speaker # "running"
     THEN s0
     ELSE
       LET len == BYTES_PER_SAMPLE * m
           mono_samples == len \div BYTES_PER_SAMPLE
           stereo_samples == mono_samples * 2
           \* resize only when the vector is smaller
           size == Max(s.output_stereo_buffer_,
                       stereo_samples * BYTES_PER_SAMPLE)
           \* the loop writes two int32 per mono sample from data()
           conv == ChunkBytes(s, mono_samples * 2 * 4)
           \* the vector's storage: past the converted bytes it still holds
           \* bytes of earlier chunks (StaleByte)
           mem == [j \in 1..Max(size, Len(conv)) |->
                     IF j <= Len(conv) THEN conv[j] ELSE StaleByte]
           play_len == stereo_samples * BYTES_PER_SAMPLE * 2
           data == SubSeq(mem, 1, play_len)
           s1 == [s0 EXCEPT !.last_speaker_audio_time_ = millis(s),
                            !.heard = TRUE,
                            !.output_stereo_buffer_ = size,
                            !.offered = @ + play_len]
           written == Written(s1, data)
           s2 == Play(s1, data)
       IN IF Len(conv) > size /\ s.ub = "abort"
          \* the loop wrote past end(): the heap check aborts
          THEN [s1 EXCEPT !.crashed = TRUE, !.offered = 0]
          ELSE IF written < play_len
          THEN IF Len(s2.audio_queue_) < MAX_QUEUE_SIZE
               THEN IF written > size
                    \* vector(begin() + written, end()) past end(): abort
                    THEN [s2 EXCEPT !.crashed = TRUE]
                    ELSE [s2 EXCEPT !.audio_queue_ =
                                      Append(@, SubSeq(mem, written + 1, size))]
               ELSE [s2 EXCEPT !.rejected = @ + (play_len - written)]
          ELSE s2

\* handle_peer_audio_data_(frame)
RTC_handle_peer_audio_data_(s, m) ==
  IF m = 0 THEN s ELSE RTC_process_received_audio_(s, m)

\* handle_peer_state_(state)
RTC_handle_peer_state_(s, ev) ==
  IF ev = "DISCONNECTED" /\ s.state_ = SIGNALLING
  THEN s
  ELSE CASE ev = "CONNECTED" ->
              IF s.state_ = SIGNALLING
              THEN Trigger(Callback(SetState(
                     [s EXCEPT !.quiet_since = millis(s)], RUNNING)),
                     "connected")
              ELSE s
         [] ev = "DISCONNECTED" ->
              IF s.state_ = RUNNING \/ s.state_ = SIGNALLING
              THEN LET s1 == SetState(s, DISCONNECTED)
                       s2 == Trigger(Callback(s1), "disconnected")
                   IN IF ~s2.explicit_disconnect_
                         /\ s2.reconnect_attempts_ < MAX_RECONNECT_ATTEMPTS
                      THEN [s2 EXCEPT !.reconnect_attempts_ = @ + 1,
                                      !.reconnect_pending_ = TRUE,
                                      !.last_reconnect_attempt_ = millis(s2)]
                      ELSE s2
              ELSE s
         [] ev = "CONNECT_FAILED" ->
              Trigger(Callback(SetState(s, ERROR)), "error")
         [] OTHER -> s

---------------------------------------------------------------------------
(* PipecatSignaling *)

\* What one HTTP request comes to: whether esp_http_client_init and
\* esp_http_client_perform succeed, the status and the body of the response;
\* and, for an answer, what malloc and esp_peer_send_msg do with it.
Response(c, st, bd, sm) ==
  [client |-> c, status |-> st, body |-> bd, send_msg |-> sm]

NoResponse == Response("", 0, "", "")

\* Response bodies: nothing cJSON_Parse accepts, an object without the two
\* items, with a string pc_id only, with a string sdp only, with both.
Bodies == {"", "{}", "pc_id", "sdp", "sdp+pc_id"}

\* cJSON_Parse(response_buffer_) is not null
IsJson(bd) == bd # ""
\* the item "sdp" exists and is a string
HasSdp(bd) == bd \in {"sdp", "sdp+pc_id"}
\* the item "pc_id" exists and is a string
HasPcId(bd) == bd \in {"pc_id", "sdp+pc_id"}

PostResponses ==
  {Response("init_fail", 0, "", "ok"), Response("perform_fail", 0, "", "ok"),
   Response("ok", 500, "", "ok"), Response("ok", 500, "sdp+pc_id", "ok")}
    \cup {Response("ok", 200, bd, "ok") : bd \in Bodies}
    \cup {Response("ok", 200, "sdp+pc_id", sm) : sm \in {"fail", "no_mem"}}

PatchResponses ==
  {Response("init_fail", 0, "", ""), Response("perform_fail", 0, "", ""),
   Response("ok", 500, "", ""), Response("ok", 200, "", "")}

\* return code; the entry names the message type it answers
Return(s, type, code) == Emit(s, "return", type, code)

\* Where the pc_id_ of the moment comes from: it is empty, an offer exchange
\* of this connection attempt stored it, or an earlier attempt's did.
PcIdOrigin(s) ==
  IF s.pc_id_ = 0 THEN "empty"
  ELSE IF s.pc_id_ = s.attempt_pc THEN "current" ELSE "earlier"

\* send_http_post_(path, json_body): the status code, 0 without a response.
\* The entry records the request with the status and the body that came back.
send_http_post_(s, r) ==
  IF r.client = "init_fail"
  THEN [s |-> s, status_code |-> 0]
  ELSE LET status_code == IF r.client = "ok" THEN r.status ELSE 0
           response_buffer_ == IF r.client = "ok" THEN r.body ELSE ""
       IN [s |-> [s EXCEPT
                    !.log = Append(@, [k |-> "post", a |-> response_buffer_,
                                       b |-> "/webrtc/offer",
                                       n |-> status_code]),
                    !.issued = IF HasPcId(response_buffer_) THEN @ + 1 ELSE @],
           status_code |-> status_code]

\* send_http_patch_(path, json_body), the body carrying pc_id_
send_http_patch_(s, r) ==
  IF r.client = "init_fail"
  THEN [s EXCEPT !.ice_failed = TRUE]
  ELSE [s EXCEPT !.log = Append(@, [k |-> "patch", a |-> "/webrtc/offer",
                                    b |-> PcIdOrigin(s), n |-> s.pc_id_]),
                 !.ice_failed = @ \/ r.client # "ok" \/ r.status # 200]

\* handle_sdp_message with the pc_id stored before the answer is looked at
handle_sdp_message_pc_id_first(s, size, r) ==
  IF size = 0 \/ ~s.handle
  THEN Return(s, "SDP", "INVALID_ARG")
  ELSE LET p == send_http_post_(s, r)
           s1 == IF p.status_code = 200 /\ HasPcId(r.body)
                 THEN [p.s EXCEPT !.pc_id_ = p.s.issued,
                                  !.attempt_pc = p.s.issued]
                 ELSE p.s
       IN IF p.status_code # 200 \/ ~IsJson(r.body) \/ ~HasSdp(r.body)
          THEN Return([s1 EXCEPT !.offer_failed = TRUE], "SDP", "FAIL")
          ELSE Return(IF s1.signaling_peer_handle_ /\ r.send_msg # "no_mem"
                      THEN Emit(s1, "send_msg", "SDP", r.send_msg)
                      ELSE s1, "SDP", "NONE")

\* handle_sdp_message(peer, data, size); r: what the POST comes to
handle_sdp_message(s, size, r) ==
  IF size = 0 \/ ~s.handle
  THEN Return(s, "SDP", "INVALID_ARG")
  ELSE LET p == send_http_post_(s, r)
           fail == Return([p.s EXCEPT !.offer_failed = TRUE], "SDP", "FAIL")
       IN IF p.status_code # 200
          THEN fail
          ELSE IF ~IsJson(r.body)
          THEN fail
          ELSE IF ~HasSdp(r.body)
          THEN fail
          ELSE LET s2 == IF p.s.signaling_peer_handle_ /\ r.send_msg # "no_mem"
                         THEN Emit(p.s, "send_msg", "SDP", r.send_msg)
                         ELSE p.s
                   s3 == IF HasPcId(r.body)
                         THEN [s2 EXCEPT !.pc_id_ = s2.issued,
                                         !.attempt_pc = s2.issued]
                         ELSE s2
               IN Return(s3, "SDP", "NONE")

\* handle_ice_candidate for which a failed PATCH is an error of the session
handle_ice_candidate_fatal(s, size, r) ==
  IF size = 0 \/ ~s.handle
  THEN Return(s, "CANDIDATE", "INVALID_ARG")
  ELSE LET s1 == send_http_patch_(s, r)
       IN IF r.client = "ok" /\ r.status = 200
          THEN Return(s1, "CANDIDATE", "NONE")
          ELSE Return(Trigger(SetState(s1, ERROR), "error"),
                      "CANDIDATE", "FAIL")

\* handle_ice_candidate(peer, data, size); r: what the PATCH comes to
handle_ice_candidate(s, size, r) ==
  IF size = 0 \/ ~s.handle
  THEN Return(s, "CANDIDATE", "INVALID_ARG")
  ELSE Return(send_http_patch_(s, r), "CANDIDATE", "NONE")

\* The messages esp_peer hands to on_msg: e is the type, m the size.
MsgTypes == {"SDP", "CANDIDATE", "UNKNOWN"}

PeerMsgs ==
  {[e |-> "SDP", m |-> 1, r |-> r] : r \in PostResponses}
    \cup {[e |-> "CANDIDATE", m |-> 1, r |-> r] : r \in PatchResponses}
    \cup {[e |-> x, m |-> 0, r |-> NoResponse] : x \in {"SDP", "CANDIDATE"}}
    \cup {[e |-> "UNKNOWN", m |-> 1, r |-> NoResponse]}

\* handle_peer_msg_(msg); the entry is the line it logs: type and size
RTC_handle_peer_msg_(s, ev) ==
  LET s1 == [s EXCEPT !.log = Append(@, [k |-> "msg", a |-> ev.e, b |-> "",
                                         n |-> ev.m])]
  IN CASE ev.e = "SDP" -> handle_sdp_message(s1, ev.m, ev.r)
       [] ev.e = "CANDIDATE" -> handle_ice_candidate(s1, ev.m, ev.r)
       [] OTHER -> Return(s1, ev.e, "NOT_SUPPORT")

---------------------------------------------------------------------------
(* VoiceAssistantWebRTC and esp_peer *)

\* The callbacks esp_peer_main_loop can make: a state change, audio, or (see
\* PeerMsgs) a message for the signalling server.
PeerStateEvents == {"PAIRING", "CONNECTED", "DISCONNECTED", "CONNECT_FAILED"}

PeerEvents(states, monos) ==
  {[e |-> x, m |-> 0, r |-> NoResponse] : x \in states}
    \cup {[e |-> "AUDIO", m |-> k, r |-> NoResponse] : k \in monos}

\* What the peer library lets happen.
RTC_EventPossible(s, ev) ==
  /\ s.handle
  /\ ~s.crashed
  /\ ev.e \in {"PAIRING", "CONNECTED", "CONNECT_FAILED"} => ~s.link
  /\ ev.e = "AUDIO" => s.link /\ s.delivered < MaxChunks
  /\ ev.e \in MsgTypes => ~s.link
  /\ (ev.e = "SDP" /\ ev.r.client = "ok" /\ HasPcId(ev.r.body))
       => s.issued < MaxPcIds

\* One callback of esp_peer_main_loop, with the library's own bookkeeping.
RTC_deliver_(s, ev) ==
  IF ~RTC_EventPossible(s, ev)
  THEN s
  ELSE IF ev.e = "AUDIO"
  THEN RTC_handle_peer_audio_data_(s, ev.m)
  ELSE IF ev.e \in MsgTypes
  THEN RTC_handle_peer_msg_(s, ev)
  ELSE LET s1 == [s EXCEPT
                    !.link = IF ev.e = "CONNECTED" THEN TRUE
                             ELSE IF ev.e = "PAIRING" THEN @ ELSE FALSE,
                    !.disc_count = IF ev.e = "DISCONNECTED"
                                   THEN CountDisconnect(s) ELSE @]
       IN RTC_handle_peer_state_(Event(s1, ev.e), ev.e)

\* esp_peer_main_loop(peer_handle_), making the callbacks `evs` in order
RECURSIVE RTC_esp_peer_main_loop(_, _)
RTC_esp_peer_main_loop(s, evs) ==
  IF evs = <<>>
  THEN s
  ELSE RTC_esp_peer_main_loop(RTC_deliver_(s, Head(evs)), Tail(evs))

\* connect_peer_(); `out` is what the AFE and esp_peer calls return
RTC_connect_peer_(s, out, evs) ==
  LET s1 == SetState([s EXCEPT !.attempt_pc = 0, !.offer_failed = FALSE,
                                  !.ice_failed = FALSE], SIGNALLING)
      fail(x) == Trigger(SetState(x, ERROR), "error")
  IN IF ~s1.afe_handle_ /\ out = "afe_fail"
     THEN fail(s1)
     ELSE
       LET s2 == [s1 EXCEPT !.afe_handle_ = TRUE]
       IN IF out = "open_fail"
          THEN fail(Emit(s2, "connect", "start", out))
          ELSE
            LET s3 == [Emit(s2, "connect", "start",
                            IF s2.handle THEN "overwrite" ELSE "ok")
                         EXCEPT !.handle = TRUE, !.link = FALSE,
                                !.signaling_peer_handle_ = TRUE]
            IN IF out = "new_conn_fail"
               THEN fail(s3)
               ELSE RTC_esp_peer_main_loop(s3, evs)

\* start() that leaves reconnect_attempts_ as it is
RTC_start_keeps_attempts(s, out, evs) ==
  IF s.state_ # IDLE /\ s.state_ # DISCONNECTED /\ s.state_ # ERROR
  THEN s
  ELSE LET s1 == [SetState(s, STARTING) EXCEPT !.explicit_disconnect_ = FALSE,
                                               !.disc_count = 0,
                                               !.reconn_count = 0,
                                               !.heard = FALSE]
       IN RTC_connect_peer_(Callback(s1), out, evs)

\* start()
RTC_start(s, out, evs) ==
  IF s.state_ # IDLE /\ s.state_ # DISCONNECTED /\ s.state_ # ERROR
  THEN s
  ELSE LET s1 == [SetState(s, STARTING) EXCEPT !.explicit_disconnect_ = FALSE,
                                               !.reconnect_attempts_ = 0,
                                               !.disc_count = 0,
                                               !.reconn_count = 0,
                                               !.heard = FALSE]
       IN RTC_connect_peer_(Callback(s1), out, evs)

\* loop(), lines 108-120: offer the front chunk of the queue to the speaker
RTC_loop_queue_(s) ==
  IF s.speaker = "running" /\ s.audio_queue_ # <<>>
  THEN LET q == Head(s.audio_queue_)
           w == Written(s, q)
           s1 == Play(s, q)
       IN IF w = Len(q)
          THEN [s1 EXCEPT !.audio_queue_ = Tail(@)]
          ELSE IF w > 0
          THEN [s1 EXCEPT !.audio_queue_ =
                            Append(Tail(@), SubSeq(q, w + 1, Len(q)))]
          ELSE s1
  ELSE s

\* loop(), lines 123-128: auto-stop after inactivity
RTC_loop_auto_stop_(s) ==
  IF /\ s.state_ = RUNNING
     /\ s.last_speaker_audio_time_ > 0
     /\ (millis(s) - s.last_speaker_audio_time_) > AUTO_STOP_INACTIVITY_MS
  THEN RTC_stop(Emit(s, "auto_stop", "", ""))
  ELSE s

\* loop(), lines 84-105: the pending teardown
RTC_loop_teardown_(s) ==
  LET s1 == [s EXCEPT !.pending_disconnect_ = FALSE]
      s2 == IF s1.handle
            THEN [Emit(s1, "destroy", "started", "") EXCEPT !.handle = FALSE,
                                                            !.link = FALSE]
            ELSE s1
      s3 == [SetState(s2, IDLE) EXCEPT !.reconnect_attempts_ = 0,
                                       !.reconnect_pending_ = FALSE,
                                       !.stop_requested = FALSE]
  IN Trigger(Callback(s3), "stopped")

\* loop(); evs: the callbacks of this call's esp_peer_main_loop, evs2: those
\* of the pending start's connect_peer_
RTC_loop(s, evs, out, evs2) ==
  IF s.pending_disconnect_
  THEN RTC_loop_teardown_(Step(s, "teardown"))
  ELSE LET s1 == RTC_loop_queue_(Step(s, "queue"))
           s2 == RTC_loop_auto_stop_(Step(s1, "auto_stop"))
           s3 == IF s2.handle
                 THEN RTC_esp_peer_main_loop(Step(s2, "pump"), evs)
                 ELSE Step(s2, "pump")
           s4 == Step(s3, "pending_start")
       IN IF s4.pending_start_
          THEN RTC_start([s4 EXCEPT !.pending_start_ = FALSE], out, evs2)
          ELSE s4

\* on_microphone_data_(data), data of n stereo 32-bit sample pairs; the AFE
\* is fed from them and r is the number of samples its fetch returns (0: no
\* result), which only the AFE decides
RTC_on_microphone_data_(s, n, r) ==
  IF ~RTC_is_connected(s) \/ s.state_ # RUNNING \/ ~s.afe_handle_
  THEN s
  ELSE IF r > 0
  THEN LET resampled_24khz_samples ==
             (r * INPUT_SAMPLE_RATE) \div MICROPHONE_SAMPLE_RATE
       IN IF s.handle
          THEN EmitN(s, "send", resampled_24khz_samples * BYTES_PER_SAMPLE)
          ELSE s
  ELSE s


---------------------------------------------------------------------------
(* The specification *)

\* What the ESP-IDF calls of connect_websocket_ / connect_peer_ return.
WS_Outcomes == {"ok", "init_fail", "start_fail"}
RTC_Outcomes == {"ok", "afe_fail", "open_fail", "new_conn_fail"}

\* A task inside a handler: the statement it has reached (pc), the chunk its
\* reference queued_data stands for (ref), what speaker_->play returned
\* (written) and the chunk it was given (data).  The main task runs loop()
\* and the automation actions, the ws task is the WebSocket client's task and
\* runs its event handler, the mic task calls on_microphone_data_.
TaskIdle == [pc |-> "idle", ref |-> <<>>, written |-> 0, data |-> <<>>]
TasksIdle == [main |-> TaskIdle, ws |-> TaskIdle, mic |-> TaskIdle]

\* The component after construction and setup(); `o` and `l` are the record
\* of what has run (nothing, or the input a routine is about to be given).
InitWith(o, l) ==
  /\ variant \in {WS, RTC}
  /\ state_ = IDLE
  /\ handle = FALSE
  /\ pending_start_ = FALSE
  /\ pending_disconnect_ = FALSE
  /\ reconnect_pending_ = FALSE
  /\ explicit_disconnect_ = FALSE
  /\ reconnect_attempts_ = 0
  /\ last_reconnect_attempt_ = 0
  /\ last_speaker_audio_time_ = 0
  /\ audio_queue_ = <<>>
  /\ output_stereo_buffer_ = 0
  /\ afe_handle_ = FALSE
  /\ now = TickMs
  /\ link = FALSE
  /\ speaker = "stopped"
  /\ crashed = FALSE
  /\ delivered = 0
  /\ hi_played = 0
  /\ held_pre = 0
  /\ played = <<>>
  /\ offered = 0
  /\ rejected = 0
  /\ cleared = 0
  /\ stop_requested = FALSE
  /\ disc_count = 0
  /\ reconn_count = 0
  /\ quiet_since = 0
  /\ heard = FALSE
  /\ pc_id_ = 0
  /\ signaling_peer_handle_ = FALSE
  /\ issued = 0
  /\ attempt_pc = 0
  /\ offer_failed = FALSE
  /\ ice_failed = FALSE
  /\ op = o
  /\ pre = IDLE
  /\ log = l
  /\ tasks = TasksIdle

Init == InitWith("setup", <<>>)

\* An environment: what the ESP-IDF calls return (ws_out, rtc_out), the
\* messages esp_peer has for the signalling server (msgs), the
\* events the transports deliver (ws_events, peer), the sample counts of the
\* audio chunks (monos) and the free space of the speaker's ring buffer
\* (frees).
\*
\* SessionEnv has every outcome and event; its audio chunks are short and the
\* speaker has room for them.
SessionEnv ==
  [ws_out |-> WS_Outcomes, rtc_out |-> RTC_Outcomes,
   ws_events |-> WS_Events, peer |-> PeerStateEvents,
   monos |-> {1}, frees |-> {Stride}, msgs |-> {}]

\* AudioEnv has every chunk size and every level of the ring buffer; its
\* connections succeed.
AudioEnv ==
  [ws_out |-> {"ok"}, rtc_out |-> {"ok"},
   ws_events |-> {"CONNECTED", "DISCONNECTED", "TEXT_INTERRUPT"},
   peer |-> {"CONNECTED", "DISCONNECTED"},
   monos |-> MonoCounts, frees |-> FreeLevels, msgs |-> {}]

\* The callbacks of one esp_peer_main_loop pass: none or one.
PumpSeqs(E) ==
  {<<>>} \cup {<<ev>> : ev \in PeerEvents(E.peer, E.monos) \cup E.msgs}

\* The callbacks esp_peer_main_loop can make from state s.
PossiblePump(s, E) ==
  {evs \in PumpSeqs(E) : evs # <<>> => RTC_EventPossible(s, evs[1])}

\* The callbacks of connect_peer_'s esp_peer_main_loop passes: the peer is new.
ConnectPump(E) == PossiblePump([Cur EXCEPT !.handle = TRUE, !.link = FALSE], E)

\* What a write past the end of a vector does: the bytes land in the memory
\* behind it, or the firmware aborts.
UbOutcomes == {"silent", "abort"}

\* The free space of the speaker's ring buffer matters when audio is played.
HasAudio(evs) == \E i \in 1..Len(evs) : evs[i].e = "AUDIO"

QueueFrees(E) ==
  IF speaker = "running" /\ audio_queue_ # <<>> THEN E.frees ELSE {0}

\* connect outcomes matter when loop() runs the pending start
LoopOutcomes(all) == IF pending_start_ THEN all ELSE {"ok"}

\* start() is called (an automation action, on the main task).
Start(E) ==
  /\ ~crashed
  /\ \/ /\ variant = WS
        /\ \E out \in E.ws_out : Commit(WS_start(Enter("start", 0), out))
     \/ /\ variant = RTC
        /\ \E out \in E.rtc_out :
             \E evs \in (IF out = "ok" THEN ConnectPump(E) ELSE {<<>>}) :
               Commit(RTC_start(Enter("start", 0), out, evs))

\* stop() is called (an automation action).
Stop ==
  /\ ~crashed
  /\ \/ variant = WS /\ Commit(WS_stop(Enter("stop", 0)))
     \/ variant = RTC /\ Commit(RTC_stop(Enter("stop", 0)))

\* request_start() is called.
RequestStart ==
  /\ ~crashed
  /\ \/ variant = WS /\ Commit(WS_request_start(Enter("request_start", 0)))
     \/ variant = RTC /\ Commit(RTC_request_start(Enter("request_start", 0)))

\* The main task calls loop().
Loop(E) ==
  /\ ~crashed
  /\ \/ /\ variant = WS
        /\ \E free \in QueueFrees(E), out \in LoopOutcomes(E.ws_out) :
             Commit(WS_loop(Enter("loop", free), out))
     \/ /\ variant = RTC
        /\ \E evs \in (IF handle /\ ~pending_disconnect_
                       THEN PossiblePump(Cur, E) ELSE {<<>>}),
              out \in LoopOutcomes(E.rtc_out) :
             \E evs2 \in (IF pending_start_ /\ out = "ok"
                          THEN ConnectPump(E) ELSE {<<>>}) :
               \E free \in (IF HasAudio(evs) THEN E.frees ELSE QueueFrees(E)),
                  ub \in (IF HasAudio(evs) THEN UbOutcomes ELSE {"silent"}) :
                 Commit(RTC_loop([Enter("loop", free) EXCEPT !.ub = ub],
                                 evs, out, evs2))

\* The WebSocket client task delivers an event other than a binary frame.
WsEvent(E) ==
  /\ ~crashed
  /\ variant = WS
  /\ \E ev \in E.ws_events :
       /\ WS_EventPossible(Cur, ev)
       /\ Commit(WS_handle_websocket_event_(Event(Enter(ev, 0), ev), ev, 0))

\* The WebSocket client task delivers text frame number m.
WsText(E) ==
  /\ ~crashed
  /\ variant = WS
  /\ WS_EventPossible(Cur, "TEXT")
  /\ \E m \in E.texts :
       Commit(WS_handle_websocket_event_(TextEvent(Enter("TEXT", 0), m),
                                         "TEXT", m))

\* The WebSocket client task delivers a binary frame of m samples.
WsData(E) ==
  /\ ~crashed
  /\ variant = WS
  /\ delivered < MaxChunks
  /\ WS_EventPossible(Cur, "DATA")
  /\ \E m \in E.monos, free \in E.frees :
       Commit(WS_handle_websocket_event_(Enter("DATA", free), "DATA", m))

\* The microphone delivers a frame.
Mic ==
  /\ ~crashed
  /\ \E n \in 0..MaxPairs :
       \/ /\ variant = WS
          /\ Commit(WS_on_microphone_data_(MicFrame(Enter("mic", 0), n), n))
       \/ /\ variant = RTC
          /\ \E r \in 0..MaxPairs :
               Commit(RTC_on_microphone_data_(MicFrame(Enter("mic", 0), n),
                                              n, r))

\* Time passes.
Tick ==
  /\ now < MaxNow
  /\ Commit([Enter("tick", 0) EXCEPT !.now = @ + TickMs])

\* The speaker component starts or stops for a reason of its own (another
\* component plays, or its idle timeout ends the speaker task).
SpeakerChange ==
  /\ ~crashed
  /\ Commit([Enter("speaker", 0) EXCEPT
               !.speaker = IF @ = "running" THEN "stopped" ELSE "running"])

\* size_t resampled_24khz_samples =
\*   (mono_16khz_samples * INPUT_SAMPLE_RATE) / MICROPHONE_SAMPLE_RATE,
\* the size resampled_buffer_ is given
ResampledSamples(n) == (n * INPUT_SAMPLE_RATE) \div MICROPHONE_SAMPLE_RATE

\* A loop that runs to the rounded-up length.
ResampleLoopBound_rounded_up(n) ==
  (n * INPUT_SAMPLE_RATE + MICROPHONE_SAMPLE_RATE - 1)
    \div MICROPHONE_SAMPLE_RATE

\* the bound of the resampling loop: i < resampled_24khz_samples
ResampleLoopBound(n) == ResampledSamples(n)

\* source_idx = (size_t) ((float) i * (float) MICROPHONE_SAMPLE_RATE
\*                        / (float) INPUT_SAMPLE_RATE).
\* The float arithmetic is exact here: i * 16000 has seven trailing zero
\* bits and fits the 24-bit significand for every i below 134217, and the
\* quotient 2i/3 is either an integer, which the division returns exactly, or
\* at least 1/3 away from one, which rounding cannot bridge.
SourceIdx(i) == (i * MICROPHONE_SAMPLE_RATE) \div INPUT_SAMPLE_RATE

\* The source indices iteration i of the loop reads from n samples:
\* interpolation between two samples, the last sample, or - beyond the
\* input - the sample at n - 1.
ResampleReads(i, n) ==
  LET source_idx == SourceIdx(i)
  IN IF source_idx + 1 < n
     THEN <<source_idx, source_idx + 1>>
     ELSE IF source_idx < n
     THEN <<source_idx>>
     ELSE <<n - 1>>

\* the samples the resampler was given, and the samples it has written
ResampleInput == log[1].n
ResampleWritten == Cardinality({i \in DOMAIN log : log[i].k = "write"})

RECURSIVE EmitReads(_, _)
EmitReads(s, idx) ==
  IF idx = <<>> THEN s ELSE EmitReads(EmitN(s, "read", Head(idx)), Tail(idx))

\* One iteration of the resampling loop: it reads, then writes
\* resampled_24khz[i].
ResampleStep ==
  /\ op \in {"input", "resample"}
  /\ ResampleWritten < ResampleLoopBound(ResampleInput)
  /\ Commit(EmitN(EmitReads([Cur EXCEPT !.op = "resample"],
                             ResampleReads(ResampleWritten, ResampleInput)),
                   "write", ResampleWritten))

\* The loop is left and resampled_24khz_samples * BYTES_PER_SAMPLE bytes go
\* to the transport.
ResampleSend ==
  /\ op \in {"input", "resample"}
  /\ ResampleWritten >= ResampleLoopBound(ResampleInput)
  /\ Commit(EmitN([Cur EXCEPT !.op = "resampled"], "send",
                   ResampledSamples(ResampleInput) * BYTES_PER_SAMPLE))

\* The resampler of on_microphone_data_ alone, on every input length up to
\* MaxFrame samples.
MaxFrame == 10

InitResample ==
  \E n \in 0..MaxFrame :
    InitWith("input", <<[k |-> "input", a |-> "", b |-> "", n |-> n]>>)

NextResample ==
  \/ ResampleStep
  \/ ResampleSend

SpecResample == InitResample /\ [][NextResample]_vars

\* The values of int16_t, and a value brought into int16_t as a conversion
\* of the build does (modulo 2^16).
Int16 == (-(2^15))..(2^15 - 1)
ToInt16(v) == ((v + 2^15) % 2^16) - 2^15

\* x << k on an int32_t.  GCC shifts a negative value as its two's-complement
\* bit pattern: the low 32 - k bits move up and bit 31 becomes the sign.
ShiftLeft(x, k) ==
  LET low == x % 2^(32 - k)
  IN (IF low >= 2^(31 - k) THEN low - 2^(32 - k) ELSE low) * 2^k

\* A widening that leaves the sample in the low 24 bits.
Widen_by_8(sample) == ShiftLeft(sample, 8)

\* int32_t sample_32 = (int32_t) sample << 16
Widen(sample) == ShiftLeft(sample, 16)

\* static_cast<int16_t>(left_sample >> 16): GCC's >> on a signed value is
\* arithmetic, i.e. the floor of the division.
Narrow(left_sample) == ToInt16(left_sample \div 2^16)

\* process_received_audio_ of the WebRTC class converts a sample:
\* stereo_audio[i * 2] = sample_32 (left), stereo_audio[i * 2 + 1] = sample_32
SampleWiden ==
  /\ op = "sample"
  /\ LET sample_32 == Widen(log[1].n)
     IN Commit(EmitN(EmitN([Cur EXCEPT !.op = "widened"], "left", sample_32),
                     "right", sample_32))

\* on_microphone_data_ converts a stereo pair: the left channel, stereo_32bit
\* [i * 2], narrowed
SampleNarrow ==
  /\ op = "widened"
  /\ Commit(EmitN([Cur EXCEPT !.op = "narrowed"], "mono", Narrow(log[2].n)))

\* The two sample conversions alone, on every 16-bit sample.
InitSamples ==
  \E sample \in Int16 :
    InitWith("sample", <<[k |-> "sample", a |-> "", b |-> "", n |-> sample]>>)

NextSamples ==
  \/ SampleWiden
  \/ SampleNarrow

SpecSamples == InitSamples /\ [][NextSamples]_vars

\* Tasks: loop() and the automation actions run on the main task, the event
\* handler on the task of the WebSocket client, on_microphone_data_ on the
\* task of the microphone.  No handler takes a lock, so the statements of one
\* task run between the statements of another.  The handlers that touch
\* audio_queue_ or send to the transport are followed statement by statement;
\* the others run as one step.
TaskEnv ==
  [ws_out |-> {"ok"}, rtc_out |-> {"ok"},
   ws_events |-> {"CONNECTED", "DISCONNECTED"},
   peer |-> {"CONNECTED", "DISCONNECTED"},
   monos |-> {1}, frees |-> {0, 1, BYTES_PER_SAMPLE}, msgs |-> {}]

\* A handler is entered by a task.  The bytes played and the numbering of
\* the bytes go on: other tasks are inside their handlers.
TaskEnter(name) == [Cur EXCEPT !.op = name, !.pre = state_, !.log = <<>>]

\* task t goes on to statement pc; "idle": it leaves its handler
Goto(s, t, pc) ==
  IF pc = "idle"
  THEN [s EXCEPT !.tasks[t] = TaskIdle]
  ELSE [s EXCEPT !.tasks[t].pc = pc]

\* front() or pop() on an empty std::queue, a use of a freed object: the
\* behaviour is undefined from here on.
Undefined(s, what) == [Emit(s, "ub", what, "") EXCEPT !.crashed = TRUE]

\* The reference queued_data of task t dangles: another task has popped the
\* chunk.
Dangling(s, t) ==
  s.audio_queue_ = <<>> \/ Head(s.audio_queue_) # s.tasks[t].ref

\* const std::vector<uint8_t> &queued_data = this->audio_queue_.front()
DrainFront(s, t) ==
  IF s.audio_queue_ = <<>>
  THEN Undefined(s, "front")
  ELSE Goto([s EXCEPT !.tasks[t].ref = Head(s.audio_queue_)], t, "play")

\* queued_written = speaker_->play(queued_data.data(), queued_data.size());
\* through a dangling reference it reads freed memory, which still holds the
\* bytes (ub = "silent") or does not
DrainPlay(s, t, ub) ==
  IF Dangling(s, t) /\ ub = "abort"
  THEN Undefined(s, "dangling")
  ELSE Goto([Play(s, s.tasks[t].ref)
               EXCEPT !.tasks[t].written = Written(s, s.tasks[t].ref)],
            t, "pop")

\* the branches on queued_written: pop(), or pop() and push(remainder), or
\* nothing
DrainPop(s, t) ==
  LET ref == s.tasks[t].ref
      w == s.tasks[t].written
  IN IF w = 0
     THEN s
     ELSE IF s.audio_queue_ = <<>>
     THEN Undefined(s, "pop")
     ELSE IF w = Len(ref)
     THEN [s EXCEPT !.audio_queue_ = Tail(@)]
     ELSE [s EXCEPT !.audio_queue_ =
                      Append(Tail(@), SubSeq(ref, w + 1, Len(ref)))]

\* The main task calls loop() of the WebSocket class: the teardown, or the
\* condition of the queue block (line 57).  esp_websocket_client_stop and
\* _destroy wait for the client's task to leave its handler.
TaskLoopBegin ==
  /\ ~crashed
  /\ variant = WS
  /\ tasks.main.pc = "idle"
  /\ IF pending_disconnect_
     THEN /\ tasks.ws.pc = "idle"
          /\ Commit(WS_loop_teardown_(Step(TaskEnter("loop"), "teardown")))
     ELSE IF speaker = "running" /\ audio_queue_ # <<>>
     THEN Commit(Goto(Step(TaskEnter("loop"), "queue"), "main", "front"))
     ELSE Commit(WS_loop_after_queue_(Step(TaskEnter("loop"), "queue"),
                                      "ok"))

\* loop(), line 58
TaskLoopFront ==
  /\ ~crashed
  /\ tasks.main.pc = "front"
  /\ Commit(DrainFront(Cur, "main"))

\* loop(), line 59
TaskLoopPlay ==
  /\ ~crashed
  /\ tasks.main.pc = "play"
  /\ \E free \in TaskEnv.frees,
        ub \in (IF Dangling(Cur, "main") THEN UbOutcomes ELSE {"silent"}) :
       Commit(DrainPlay([Cur EXCEPT !.free = free], "main", ub))

\* loop(), lines 61-75, and the rest of loop()
TaskLoopPop ==
  /\ ~crashed
  /\ tasks.main.pc = "pop"
  /\ LET s1 == DrainPop(Cur, "main")
     IN Commit(IF s1.crashed
               THEN s1
               ELSE Goto(WS_loop_after_queue_(s1, "ok"), "main", "idle"))

\* The client's task delivers a binary frame of m samples:
\* process_received_audio_ up to its while loop (lines 327-353).
TaskDataBegin ==
  /\ ~crashed
  /\ variant = WS
  /\ tasks.ws.pc = "idle"
  /\ delivered < MaxChunks
  /\ WS_EventPossible(Cur, "DATA")
  /\ \E m \in TaskEnv.monos :
       LET s0 == [Chunk(TaskEnter("DATA"), m)
                    EXCEPT !.delivered = @ + 1, !.quiet_since = millis(Cur)]
       IN IF state_ # RUNNING
          THEN Commit(s0)
          ELSE Commit(Goto([s0 EXCEPT
                              !.speaker = "running",
                              !.tasks.ws.data =
                                ChunkBytes(Cur, BYTES_PER_SAMPLE * m)],
                           "ws", "check"))

\* process_received_audio_, line 355: while (!this->audio_queue_.empty())
TaskDataCheck ==
  /\ ~crashed
  /\ tasks.ws.pc = "check"
  /\ Commit(Goto(Cur, "ws", IF audio_queue_ = <<>> THEN "new" ELSE "front"))

\* process_received_audio_, line 356
TaskDataFront ==
  /\ ~crashed
  /\ tasks.ws.pc = "front"
  /\ Commit(DrainFront(Cur, "ws"))

\* process_received_audio_, line 357
TaskDataPlay ==
  /\ ~crashed
  /\ tasks.ws.pc = "play"
  /\ \E free \in TaskEnv.frees,
        ub \in (IF Dangling(Cur, "ws") THEN UbOutcomes ELSE {"silent"}) :
       Commit(DrainPlay([Cur EXCEPT !.free = free], "ws", ub))

\* process_received_audio_, lines 359-377: after a whole chunk the loop goes
\* on, otherwise it breaks
TaskDataPop ==
  /\ ~crashed
  /\ tasks.ws.pc = "pop"
  /\ LET s1 == DrainPop(Cur, "ws")
     IN Commit(IF s1.crashed
               THEN s1
               ELSE Goto(s1, "ws",
                         IF tasks.ws.written = Len(tasks.ws.ref)
                         THEN "check" ELSE "new"))

\* process_received_audio_, lines 380-408: the new chunk
TaskDataNew ==
  /\ ~crashed
  /\ tasks.ws.pc = "new"
  /\ \E free \in TaskEnv.frees :
       Commit(Goto(WS_play_or_queue_(
                     [Cur EXCEPT !.free = free,
                                 !.last_speaker_audio_time_ = millis(Cur),
                                 !.heard = TRUE],
                     tasks.ws.data),
                   "ws", "idle"))

\* The microphone's task calls on_microphone_data_: the check at its start
\* (lines 412-414 / 613-616); what fails it returns without a trace.
TaskMicBegin ==
  /\ ~crashed
  /\ tasks.mic.pc = "idle"
  /\ state_ = RUNNING
  /\ \/ variant = WS /\ WS_is_connected(Cur)
     \/ variant = RTC /\ RTC_is_connected(Cur) /\ afe_handle_
  /\ Commit(Goto(MicFrame(TaskEnter("mic"), MaxPairs), "mic", "resample"))

\* The frame is converted and resampled; then the send path checks the
\* handle once more (send_audio_chunk_, lines 313-315 / line 675).
TaskMicCheck ==
  /\ ~crashed
  /\ tasks.mic.pc = "resample"
  /\ Commit(Goto(Cur, "mic",
                 IF (variant = WS /\ WS_is_connected(Cur))
                    \/ (variant = RTC /\ handle)
                 THEN "send" ELSE "idle"))

\* esp_websocket_client_send_bin(websocket_client_, ...) /
\* esp_peer_send_audio(peer_handle_, ...).  When loop() has destroyed the
\* handle since the check, the call gets the null pointer loop() has stored
\* and fails ("null"), or the pointer read before the teardown or torn down
\* during the call: it uses freed memory.
TaskMicSend ==
  /\ ~crashed
  /\ tasks.mic.pc = "send"
  /\ IF handle
     THEN Commit(Goto(EmitN(Cur, "send",
                            ResampledSamples(MaxPairs) * BYTES_PER_SAMPLE),
                      "mic", "idle"))
     ELSE \/ Commit(Goto(Emit(Cur, "send", "null", ""), "mic", "idle"))
          \/ \E ub \in UbOutcomes :
               Commit(Goto([Emit(Cur, "send", "destroyed", ub)
                              EXCEPT !.crashed = (ub = "abort")],
                           "mic", "idle"))

\* start() on the main task
TaskStart ==
  /\ ~crashed
  /\ tasks.main.pc = "idle"
  /\ \/ variant = WS /\ Commit(WS_start(TaskEnter("start"), "ok"))
     \/ /\ variant = RTC
        /\ \E evs \in ConnectPump(TaskEnv) :
             Commit(RTC_start(TaskEnter("start"), "ok", evs))

\* stop() on the main task
TaskStop ==
  /\ ~crashed
  /\ tasks.main.pc = "idle"
  /\ \/ variant = WS /\ Commit(WS_stop(TaskEnter("stop")))
     \/ variant = RTC /\ Commit(RTC_stop(TaskEnter("stop")))

\* The client's task delivers an event other than data.
TaskWsEvent ==
  /\ ~crashed
  /\ variant = WS
  /\ tasks.ws.pc = "idle"
  /\ \E ev \in TaskEnv.ws_events :
       /\ WS_EventPossible(Cur, ev)
       /\ Commit(WS_handle_websocket_event_(Event(TaskEnter(ev), ev), ev, 0))

\* loop() of the WebRTC class on the main task; the peer's callbacks run
\* inside it.
TaskLoopRtc ==
  /\ ~crashed
  /\ variant = RTC
  /\ tasks.main.pc = "idle"
  /\ \E evs \in (IF handle /\ ~pending_disconnect_
                 THEN PossiblePump(Cur, TaskEnv) ELSE {<<>>}) :
       Commit(RTC_loop(TaskEnter("loop"), evs, "ok", <<>>))

\* The tasks that touch audio_queue_: main and the client's.
NextTasks ==
  \/ TaskStart
  \/ TaskStop
  \/ TaskWsEvent
  \/ TaskLoopBegin
  \/ TaskLoopFront
  \/ TaskLoopPlay
  \/ TaskLoopPop
  \/ TaskDataBegin
  \/ TaskDataCheck
  \/ TaskDataFront
  \/ TaskDataPlay
  \/ TaskDataPop
  \/ TaskDataNew

\* The tasks that touch the transport handle: main, the client's and the
\* microphone's.
NextMic ==
  \/ TaskStart
  \/ TaskStop
  \/ TaskWsEvent
  \/ TaskLoopBegin
  \/ TaskLoopRtc
  \/ TaskMicBegin
  \/ TaskMicCheck
  \/ TaskMicSend

SpecMic == Init /\ [][NextMic]_vars

SpecTasks == Init /\ [][NextTasks]_vars

\* Session control: every handler, every outcome, time.
SessionStart == Start(SessionEnv)
SessionLoop == Loop(SessionEnv)
SessionWsEvent == WsEvent(SessionEnv)
SessionWsData == WsData(SessionEnv)

Next ==
  \/ SessionStart
  \/ Stop
  \/ RequestStart
  \/ SessionLoop
  \/ SessionWsEvent
  \/ SessionWsData
  \/ Mic
  \/ Tick
  \/ SpeakerChange

Spec == Init /\ [][Next]_vars

\* The playback path: chunks of every size against every level of the
\* speaker's ring buffer.
AudioStart == Start(AudioEnv)
AudioLoop == Loop(AudioEnv)
AudioWsEvent == WsEvent(AudioEnv)
AudioWsData == WsData(AudioEnv)

NextAudio ==
  \/ AudioStart
  \/ Stop
  \/ AudioLoop
  \/ AudioWsEvent
  \/ AudioWsData
  \/ SpeakerChange

SpecAudio == Init /\ [][NextAudio]_vars

\* Reconnecting: connections that come and go, without audio; the main task
\* calls loop() again and again, and time passes.
ReconnectEnv ==
  [ws_out |-> {"ok", "start_fail"}, rtc_out |-> {"ok", "new_conn_fail"},
   ws_events |-> {"CONNECTED", "DISCONNECTED", "ERROR"},
   peer |-> {"CONNECTED", "DISCONNECTED", "CONNECT_FAILED"},
   monos |-> {}, frees |-> {0}, msgs |-> {}]

ReconnectStart == Start(ReconnectEnv)
ReconnectLoop == Loop(ReconnectEnv)
ReconnectWsEvent == WsEvent(ReconnectEnv)

NextReconnect ==
  \/ ReconnectStart
  \/ Stop
  \/ ReconnectLoop
  \/ ReconnectWsEvent
  \/ Tick

SpecReconnect ==
  Init /\ [][NextReconnect]_vars /\ WF_vars(ReconnectLoop) /\ WF_vars(Tick)

\* Signalling: the peer's offers and candidates against every answer of the
\* signalling server; connections that come up, fail and go.
SignalEnv ==
  [ws_out |-> {"ok"}, rtc_out |-> {"ok"},
   ws_events |-> {"CONNECTED", "DISCONNECTED"},
   peer |-> {"CONNECTED", "DISCONNECTED", "CONNECT_FAILED"},
   monos |-> {}, frees |-> {0}, msgs |-> PeerMsgs]

SignalStart == Start(SignalEnv)
SignalLoop == Loop(SignalEnv)
SignalWsEvent == WsEvent(SignalEnv)

NextSignal ==
  \/ SignalStart
  \/ Stop
  \/ RequestStart
  \/ SignalLoop
  \/ SignalWsEvent

SpecSignal == Init /\ [][NextSignal]_vars

\* Control frames: every text frame of TextFrameOf against a session with
\* queued audio; connections succeed.
FrameEnv ==
  [ws_out |-> {"ok"}, rtc_out |-> {"ok"},
   ws_events |-> {"CONNECTED", "DISCONNECTED", "OTHER_OPCODE"},
   peer |-> {"CONNECTED", "DISCONNECTED"},
   monos |-> {1}, frees |-> {0}, msgs |-> {},
   texts |-> 0..(TextFrameCount - 1)]

FrameStart == Start(FrameEnv)
FrameLoop == Loop(FrameEnv)
FrameWsEvent == WsEvent(FrameEnv)
FrameWsText == WsText(FrameEnv)
FrameWsData == WsData(FrameEnv)

NextFrames ==
  \/ FrameStart
  \/ Stop
  \/ FrameLoop
  \/ FrameWsEvent
  \/ FrameWsText
  \/ FrameWsData
  \/ SpeakerChange

SpecFrames == Init /\ [][NextFrames]_vars

---------------------------------------------------------------------------
(* Properties *)

\* The edges of the state table.
EdgeTable ==
  ({IDLE, DISCONNECTED, ERROR} \X {STARTING})
    \cup (IF variant = RTC THEN {<<STARTING, SIGNALLING>>} ELSE {})
    \cup ({STARTING, SIGNALLING} \X {RUNNING})
    \cup ({RUNNING, SIGNALLING} \X {DISCONNECTED})
    \* WebSocket has no Signalling phase: Starting stands in for it
    \cup (IF variant = WS THEN {<<STARTING, DISCONNECTED>>} ELSE {})
    \cup ({STARTING, SIGNALLING, RUNNING} \X {ERROR})
    \cup ((States \ {IDLE}) \X {STOPPING})
    \cup {<<STOPPING, IDLE>>}

\* The assignments to state_ the last handler made that changed its value.
StateChanges ==
  {i \in DOMAIN log : log[i].k = "state" /\ log[i].a # log[i].b}

\* The last handler ran on a transport callback.
TransportOps == WS_Events \cup {"DATA"}

\* C1: state_ changes only along the edges of the state table; a transport
\* event that arrives in Stopping or Idle does not move the state to
\* Running, Disconnected or Error.
C1_OnlyTableEdges ==
  /\ \A i \in StateChanges : <<log[i].a, log[i].b>> \in EdgeTable
  /\ op \in TransportOps /\ pre \in {STOPPING, IDLE}
       => state_ \notin {RUNNING, DISCONNECTED, ERROR}

\* C2: between a stop() in a non-Idle state and the loop() that tears the
\* transport down the state is Stopping, and that loop() ends in Idle with
\* the handle null and the stopped trigger fired once.
C2_StoppingUntilIdle ==
  /\ stop_requested => state_ = STOPPING
  /\ op = "loop" /\ pre = STOPPING =>
       /\ state_ = IDLE
       /\ ~handle
       /\ Cardinality({i \in DOMAIN log :
                         log[i].k = "trigger" /\ log[i].a = "stopped"}) = 1

\* The last handler destroyed a started transport or made a reconnect
\* connection attempt.
TeardownOrReconnect ==
  \E i \in DOMAIN log :
    \/ log[i].k = "destroy" /\ log[i].a = "started"
    \/ log[i].k = "connect" /\ log[i].a = "reconnect"

\* C3: a started transport is destroyed, and a reconnect connection is
\* attempted, only inside loop(): never inside stop(), a transport callback
\* or a microphone callback.
C3_TeardownOnlyInLoop == TeardownOrReconnect => op = "loop"

C3_Witness ==
  /\ op = "loop"
  /\ \E i \in DOMAIN log : log[i].k = "destroy" /\ log[i].a = "started"
  /\ pre = STOPPING

\* C4: start() called in Starting, Signalling or Stopping is a no-op: the
\* state stays, nothing is attempted and nothing fires.
C4_StartIsNoOpWhenBusy ==
  op = "start" /\ pre \in {STARTING, SIGNALLING, STOPPING}
    => state_ = pre /\ log = <<>>

\* C5: start() called in Running leaves the state Running, fires no trigger
\* and no state callback and attempts no connection.
C5_StartInRunning ==
  op = "start" /\ pre = RUNNING => state_ = RUNNING /\ log = <<>>

C5_Witness == op = "start" /\ pre = RUNNING /\ handle /\ link

\* C6: the queue never holds more than MAX_QUEUE_SIZE chunks, and a handler
\* that rejects a chunk leaves the session state as it was.
C6_QueueBounded ==
  /\ Len(audio_queue_) <= MAX_QUEUE_SIZE
  /\ rejected > 0 => state_ = pre

\* The bytes waiting in audio_queue_, in queue order.
Waiting == Flatten(audio_queue_)

\* C7: the speaker accepts bytes in the order the transport delivered them:
\* what the last handler played is newer than everything played before, in
\* delivery order, and older than everything still waiting in the queue.
C7_PlaybackFifo ==
  /\ \A i \in DOMAIN played : played[i] > hi_played
  /\ \A i, j \in DOMAIN played : i < j => played[i] < played[j]
  /\ \A i \in DOMAIN played, j \in DOMAIN Waiting : played[i] < Waiting[j]

\* C8: in every handler the bytes the speaker accepted plus the bytes held in
\* the queue afterwards are the bytes held before plus the bytes offered,
\* minus the bytes rejected by a full queue (and those stop() cleared).
C8_BytesConserved ==
  ~crashed =>
    Len(played) + SumLen(audio_queue_)
      = held_pre + offered - rejected - cleared
\* C9: five consecutive disconnects without an explicit stop come with five
\* reconnect attempts, one after each (the fifth may still be due), and never
\* more; an explicit start() leaves reconnect_attempts_ at 0.
C9_FiveDisconnectsFiveAttempts ==
  /\ disc_count = MAX_RECONNECT_ATTEMPTS
       => reconn_count >= MAX_RECONNECT_ATTEMPTS - 1
  /\ reconn_count <= MAX_RECONNECT_ATTEMPTS
  /\ op = "start" /\ pre \in {IDLE, DISCONNECTED, ERROR}
       => reconnect_attempts_ = 0

\* A disconnect was reported without an explicit stop, attempts are left, the
\* reconnect after it has not been attempted and there is time for the delay.
ReconnectDue ==
  /\ disc_count >= 1
  /\ reconn_count < disc_count
  /\ reconnect_attempts_ < MAX_RECONNECT_ATTEMPTS
  /\ ~stop_requested
  /\ ~explicit_disconnect_
  /\ ~crashed
  /\ now + RECONNECT_DELAY_MS < MaxNow

\* The reconnect was attempted, or start(), stop() or a connection the
\* library made itself took its place.
ReconnectSettled ==
  \/ reconn_count >= disc_count
  \/ disc_count = 0
  \/ stop_requested
  \/ explicit_disconnect_

\* C10: after a disconnect without an explicit stop and with attempts left,
\* with loop() called again and again, a new connection attempt is made.
C10_ReconnectEventually == ReconnectDue ~> ReconnectSettled
\* A stop was requested (by the caller, by auto-stop or by a disconnect
\* message) and no start() has followed: the teardown is pending, or it is
\* done and the session is Idle.
AfterStop == stop_requested \/ state_ = IDLE

\* The last handler made a reconnect connection attempt.
ReconnectAttempt ==
  \E i \in DOMAIN log : log[i].k = "connect" /\ log[i].a = "reconnect"

\* C11: from a stop until the next start() (called directly or run by loop()
\* for a pending request) no handler makes a reconnect connection attempt or
\* increments reconnect_attempts_, whatever the transport reports meanwhile.
C11_NoReconnectAfterStop ==
  [][(AfterStop /\ op' # "start" /\ ~(op' = "loop" /\ pending_start_))
       => /\ reconnect_attempts_' <= reconnect_attempts_
          /\ ~ReconnectAttempt']_vars

\* the transport reports a disconnect or an error while the teardown of a
\* stop is pending
C11_Witness ==
  /\ stop_requested
  /\ pending_disconnect_
  /\ op \in {"DISCONNECTED", "ERROR"}
  /\ reconnect_pending_
\* The session is Running and no audio was received for longer than the
\* inactivity window.
QuietWindowOver ==
  /\ state_ = RUNNING
  /\ quiet_since > 0
  /\ now - quiet_since > AUTO_STOP_INACTIVITY_MS

\* The last handler ran the auto-stop.
AutoStopped == \E i \in DOMAIN log : log[i].k = "auto_stop"

\* C12: a loop() call made when the session has been Running without audio
\* for the whole inactivity window (and no teardown is pending) runs stop():
\* the state becomes Stopping and the teardown is pending.
C12_AutoStopAfterQuietWindow ==
  [][(QuietWindowOver /\ ~pending_disconnect_ /\ ~crashed /\ op' = "loop")
       => /\ AutoStopped'
          /\ state_' = STOPPING
          /\ pending_disconnect_']_vars

---------------------------------------------------------------------------
(* Signalling *)

\* An offer POST whose response handle_sdp_message takes for an answer.
Accepted(e) == e.k = "post" /\ e.n = 200 /\ HasSdp(e.a)

Posts(l) == {i \in DOMAIN l : l[i].k = "post"}

AnswerForwarded(l) == \E i \in DOMAIN l : l[i].k = "send_msg"

\* C13: handle_sdp_message hands an answer to the peer only after a POST that
\* returned 200 with a JSON body holding a string sdp; after any other
\* response (a 200 without sdp like a non-200) it returns failure, hands
\* nothing to the peer and leaves pc_id_ as it was.
C13_AnswerOnlyFrom200WithSdp ==
  [][/\ \A i \in Posts(log') :
          /\ (i < Len(log') /\ log'[i + 1].k = "send_msg") => Accepted(log'[i])
          /\ ~Accepted(log'[i])
               => /\ i < Len(log')
                  /\ log'[i + 1] = [k |-> "return", a |-> "SDP", b |-> "FAIL",
                                    n |-> 0]
     /\ (\A i \in Posts(log') : ~Accepted(log'[i]))
          => pc_id_' = pc_id_ /\ ~AnswerForwarded(log')]_vars

\* a 200 response that names a pc_id and no sdp was handled
C13_Witness ==
  \E i \in Posts(log) : log[i].n = 200 /\ log[i].a = "pc_id" /\ issued > pc_id_

OfferReturnedFail(l, i) ==
  l[i] = [k |-> "return", a |-> "SDP", b |-> "FAIL", n |-> 0]

NewAttempt(l) == \E i \in DOMAIN l : l[i].k = "connect"

\* C14: when an offer exchange fails (no 200, a body that is not JSON, no
\* sdp) the state becomes Error, and no other offer is posted before the
\* next connection attempt.
C14_OfferFailureIsError ==
  [][/\ \A i \in DOMAIN log' :
          OfferReturnedFail(log', i)
            => \E j \in DOMAIN log' :
                 j > i /\ log'[j].k = "state" /\ log'[j].b = ERROR
     /\ (offer_failed /\ ~NewAttempt(log')) => Posts(log') = {}]_vars

CandidateReturnedNone(l, i) ==
  /\ i <= Len(l)
  /\ l[i] = [k |-> "return", a |-> "CANDIDATE", b |-> "NONE", n |-> 0]

\* the handler ran for candidates and nothing else happened in the step
CandidatesOnly(l) ==
  /\ \E i \in DOMAIN l : l[i].k = "msg"
  /\ \A i \in DOMAIN l :
       \/ l[i].k \in {"patch", "step"}
       \/ l[i].k \in {"msg", "return"} /\ l[i].a = "CANDIDATE"

\* C15: whatever the PATCH of a well-formed candidate comes to,
\* handle_ice_candidate returns ESP_PEER_ERR_NONE and does nothing to the
\* session besides the request: the state stays as it is.
C15_IceFailureIsSwallowed ==
  [][/\ \A i \in DOMAIN log' :
          (log'[i].k = "msg" /\ log'[i].a = "CANDIDATE" /\ log'[i].n > 0)
            => \/ CandidateReturnedNone(log', i + 1)
               \/ /\ CandidateReturnedNone(log', i + 2)
                  /\ log'[i + 1].k = "patch"
     /\ CandidatesOnly(log') => state_' = state_]_vars

\* the session is Running although a candidate of this attempt was not
\* delivered
C15_Witness == state_ = RUNNING /\ ice_failed

\* C16: every candidate PATCH carries the pc_id that the offer exchange of
\* the current connection attempt stored: never the empty string (no pc_id
\* stored yet) and never the pc_id of an earlier attempt.
C16_PatchCarriesCurrentPcId ==
  \A i \in DOMAIN log :
    log[i].k = "patch" => log[i].n # 0 /\ log[i].b = "current"

---------------------------------------------------------------------------
(* start(), request_start() and the order of loop() *)

ConnectionAttempts(l) == {i \in DOMAIN l : l[i].k = "connect"}

\* C17: start() called in Idle, Disconnected or Error first sets the state
\* to Starting; reconnect_attempts_ is 0 and explicit_disconnect_ is false
\* when it returns, and its connection attempt comes after the state change.
C17_StartResets ==
  [][(op' = "start" /\ state_ \in {IDLE, DISCONNECTED, ERROR})
       => /\ log' # <<>>
          /\ log'[1] = [k |-> "state", a |-> state_, b |-> STARTING, n |-> 0]
          /\ reconnect_attempts_' = 0
          /\ ~explicit_disconnect_'
          /\ \A i \in ConnectionAttempts(log') : i > 1]_vars

\* start() after a disconnect made a connection attempt
C17_Witness ==
  /\ op = "start"
  /\ pre = DISCONNECTED
  /\ ConnectionAttempts(log) # {}

\* reconnect_attempts_ of the WebSocket class is 0 whenever start() can run
WS_AttemptsAlwaysZero == variant = WS => reconnect_attempts_ = 0

StartInvoked(l) ==
  \E i \in DOMAIN l : l[i].k = "state" /\ l[i].b = STARTING

\* C18: request_start() sets pending_start_ and nothing else; a loop() that
\* gets to its pending-start step (no teardown is pending) clears
\* pending_start_, and when the state is Disconnected or Error it starts
\* the session.
C18_PendingStartRunsNextLoop ==
  [][/\ op' = "request_start"
          => /\ pending_start_'
             /\ log' = <<>>
             /\ <<state_, handle, pending_disconnect_, reconnect_pending_,
                  explicit_disconnect_, reconnect_attempts_>>'
                  = <<state_, handle, pending_disconnect_, reconnect_pending_,
                      explicit_disconnect_, reconnect_attempts_>>
     /\ (op' = "loop" /\ pending_start_ /\ ~pending_disconnect_)
          => /\ ~pending_start_'
             /\ state_ \in {DISCONNECTED, ERROR} => StartInvoked(log')]_vars

\* C18 for the WebRTC class alone
C18_WebRTC ==
  [][(variant = RTC /\ op' = "loop" /\ pending_start_ /\ ~pending_disconnect_)
          => /\ ~pending_start_'
             /\ state_ \in {DISCONNECTED, ERROR} => StartInvoked(log')]_vars

\* The place of a block in the order of loop(); the WebSocket class's
\* reconnect block has none.
Rank(name) ==
  CASE name = "teardown" -> 1
    [] name = "queue" -> 2
    [] name = "auto_stop" -> 3
    [] name = "pump" -> 4
    [] name = "pending_start" -> 5
    [] OTHER -> 0

RankedSteps(l) == {i \in DOMAIN l : l[i].k = "step" /\ Rank(l[i].a) > 0}

\* a pending start is processed only after the auto-stop block was reached
StartAfterAutoStop(l) ==
  \A i \in DOMAIN l :
    (l[i].k = "state" /\ l[i].b = STARTING)
      => \E j \in DOMAIN l : j < i /\ l[j].k = "step" /\ l[j].a = "auto_stop"

\* C19: one loop() comes to its blocks in the order teardown, queue drain,
\* auto-stop, transport pump, pending start; a pending start is not
\* processed before the auto-stop block of the same call.
C19_LoopOrder ==
  op = "loop"
    => /\ \A i, j \in RankedSteps(log) :
            i < j => Rank(log[i].a) < Rank(log[j].a)
       /\ StartAfterAutoStop(log)

\* C19, the pending start alone
C19_PendingStartLast == op = "loop" => StartAfterAutoStop(log)

\* C19 for the WebRTC class alone
C19_WebRTC == variant = RTC => C19_LoopOrder

---------------------------------------------------------------------------
(* The reconnect counter *)

Exhausted == reconnect_attempts_ = MAX_RECONNECT_ATTEMPTS

\* C20: reconnect_attempts_ never exceeds MAX_RECONNECT_ATTEMPTS; while it
\* equals MAX_RECONNECT_ATTEMPTS a step other than start() makes no
\* connection attempt and leaves the state Disconnected or Error.
C20_AttemptsBounded ==
  [][/\ reconnect_attempts_' <= MAX_RECONNECT_ATTEMPTS
     /\ (Exhausted /\ op' # "start" /\ ~(op' = "loop" /\ pending_start_))
          => /\ ConnectionAttempts(log') = {}
             /\ state_' \in {DISCONNECTED, ERROR}]_vars

\* The counter is never exhausted: the WebSocket class never counts, and
\* the WebRTC class counts one disconnect from Running and needs start(),
\* which resets the counter, to be Running again.
AttemptsAtMostOne == reconnect_attempts_ <= 1

---------------------------------------------------------------------------
(* Events of the transport *)

EnteredRunning ==
  /\ state_ = RUNNING
  /\ \E i \in DOMAIN log : log[i].k = "state" /\ log[i].b = RUNNING

\* C21: a step that takes the session into Running leaves
\* reconnect_attempts_ at 0 and reconnect_pending_ false.
C21_RunningResetsReconnect ==
  EnteredRunning => reconnect_attempts_ = 0 /\ ~reconnect_pending_

\* C21 for the WebSocket class alone
C21_WebSocket == variant = WS => C21_RunningResetsReconnect

Events(l) == {i \in DOMAIN l : l[i].k = "event"}

\* the entries of the event at i end before this index
EventEnd(l, i) ==
  IF \E j \in Events(l) : j > i
  THEN CHOOSE j \in Events(l) : j > i /\ \A h \in Events(l) : h > i => j <= h
  ELSE Len(l) + 1

DisconnectedTriggers(l, i) ==
  {j \in DOMAIN l : /\ i < j /\ j < EventEnd(l, i)
                    /\ l[j].k = "trigger" /\ l[j].a = "disconnected"}

\* the event at i made the state Disconnected and fired the trigger once
DisconnectHandled(l, i) ==
  /\ i < Len(l)
  /\ l[i + 1] = [k |-> "state", a |-> l[i].b, b |-> DISCONNECTED, n |-> 0]
  /\ Cardinality(DisconnectedTriggers(l, i)) = 1

\* C22: a disconnect reported by the transport while the session is Running
\* or Signalling makes the state Disconnected and fires the disconnected
\* trigger once.
C22_DisconnectFromRunningOrSignalling ==
  \A i \in Events(log) :
    (log[i].a = "DISCONNECTED" /\ log[i].b \in {RUNNING, SIGNALLING})
      => DisconnectHandled(log, i)

\* C22 for a session that is Running
C22_FromRunning ==
  \A i \in Events(log) :
    (log[i].a = "DISCONNECTED" /\ log[i].b = RUNNING)
      => DisconnectHandled(log, i)

StateEntries(l) == {i \in DOMAIN l : l[i].k = "state"}

\* an error trigger follows the entry at i before the state is set again
ErrorTriggerFollows(l, i) ==
  \E j \in DOMAIN l :
    /\ j > i
    /\ l[j].k = "trigger" /\ l[j].a = "error"
    /\ \A h \in StateEntries(l) : ~(i < h /\ h < j)

\* C23: whenever the state is set to Error, by an event of the transport or
\* by a failure in connect_websocket_ / connect_peer_, the error trigger
\* fires.
C23_ErrorFiresTrigger ==
  \A i \in StateEntries(log) : log[i].b = ERROR => ErrorTriggerFollows(log, i)

\* C23 for the WebRTC class alone
C23_WebRTC == variant = RTC => C23_ErrorFiresTrigger

\* C23 for the events of the WebSocket transport alone
C23_WebSocketEvents == (variant = WS /\ op = "ERROR") => C23_ErrorFiresTrigger

---------------------------------------------------------------------------
(* stop() and the playback queue *)

\* loop() has just torn down a session that stop() had put into Stopping
IdleAfterStop == op = "loop" /\ pre = STOPPING /\ state_ = IDLE

\* C24: when a stopped session reaches Idle, audio_queue_ is empty: nothing
\* queued before the stop is left for the speaker.
C24_IdleAfterStopHasEmptyQueue == IdleAfterStop => audio_queue_ = <<>>

\* C24 for the WebSocket class alone
C24_WebSocket == variant = WS => C24_IdleAfterStopHasEmptyQueue

\* C24, the consequence: a loop() in Idle offers nothing to the speaker
C24_NothingPlayedInIdle == ~(op = "loop" /\ pre = IDLE /\ played # <<>>)


(* Control frames *)

\* a frame without its spaces
Strip(f) == SelectSeq(f, LAMBDA tok : tok # " ")

\* The control message a frame carries: the value of the member "type" of a
\* whole JSON object, "" when the frame is not one.
ControlMessage(f) ==
  LET g == Strip(f)
  IN IF Len(g) = 5 /\ g[1] = "{" /\ g[2] = "\"type\"" /\ g[3] = ":"
        /\ g[5] = "}"
     THEN g[4]
     ELSE ""

\* the text frame the handler that ran was given
TextOf(l) == TextFrameOf(l[1].n)

\* the handler that ran fired no trigger and made no callback
Silent(l) == \A i \in DOMAIN l : l[i].k \notin {"trigger", "callback"}

\* what an interrupt leaves alone
InterruptKeeps ==
  /\ state_' = state_
  /\ handle' = handle
  /\ link' = link
  /\ pending_disconnect_' = pending_disconnect_
  /\ reconnect_pending_' = reconnect_pending_
  /\ reconnect_attempts_' = reconnect_attempts_
  /\ Silent(log')

\* C25: a text frame that carries the interrupt control message stops the
\* speaker; state_, the transport handle and its connection,
\* pending_disconnect_, reconnect_pending_ and reconnect_attempts_ stay as they
\* were, and no trigger fires.
C25_InterruptStopsSpeakerOnly ==
  [][(op' = "TEXT" /\ ControlMessage(TextOf(log')) = Interrupt)
       => speaker' = "stopped" /\ InterruptKeeps]_vars

\* The same for the frames in which the member is spelled as the handler
\* searches for it.
C25_SpelledInterrupt ==
  [][(op' = "TEXT" /\ (Find(TextOf(log'), TypeCompact(Interrupt))
                         \/ Find(TextOf(log'), TypeSpaced(Interrupt))))
       => speaker' = "stopped" /\ InterruptKeeps]_vars

\* An interrupt message is always left alone, whatever becomes of the speaker.
C25_InterruptKeeps ==
  [][(op' = "TEXT" /\ ControlMessage(TextOf(log')) = Interrupt)
       => InterruptKeeps]_vars


\* what a frame that is ignored leaves alone
IgnoredKeeps ==
  /\ state_' = state_
  /\ pending_start_' = pending_start_
  /\ pending_disconnect_' = pending_disconnect_
  /\ reconnect_pending_' = reconnect_pending_
  /\ reconnect_attempts_' = reconnect_attempts_
  /\ audio_queue_' = audio_queue_
  /\ Silent(log')

\* C26: a text frame that is neither the interrupt nor the disconnect control
\* message, and a data frame whose opcode is neither text nor binary, leave
\* the state, the pending flags, the reconnect counters and audio_queue_ as
\* they were and fire no trigger.
C26_OtherFramesIgnored ==
  [][((op' = "TEXT"
         /\ ControlMessage(TextOf(log')) \notin {Interrupt, Disconnect})
      \/ op' = "OTHER_OPCODE") => IgnoredKeeps]_vars

\* The same for the text frames that hold neither message in a spelling the
\* handler searches for.
C26_UnspelledIgnored ==
  [][((op' = "TEXT"
         /\ \A v \in {Interrupt, Disconnect} :
              ~Find(TextOf(log'), TypeCompact(v))
              /\ ~Find(TextOf(log'), TypeSpaced(v)))
      \/ op' = "OTHER_OPCODE") => IgnoredKeeps]_vars


(* Audio formats *)

\* the transport sends of the handler that ran
Sends(l) == {i \in DOMAIN l : l[i].k = "send"}

\* the samples of the wire format n sample pairs of the microphone make
WireSamples(n) == (n * 24000) \div 16000

\* The microphone's frame of n sample pairs went out as one chunk of
\* WireSamples(n) samples of two bytes.
MicFrameSent(l) ==
  /\ Cardinality(Sends(l)) = 1
  /\ \A i \in Sends(l) : l[i].n = WireSamples(l[1].n) * 2

\* a microphone frame came to a session that was Running and connected
MicWhileRunning == op = "mic" /\ pre = RUNNING /\ handle /\ link

\* C27: while the session is Running and connected, a microphone frame of n
\* stereo 32-bit sample pairs makes exactly one transport send, of
\* n*24000/16000 mono 16-bit samples of 2 bytes each.
C27_MicFrameSentResampled == MicWhileRunning => MicFrameSent(log)

\* The WebSocket class alone.
C27_WebSocket == variant = WS => C27_MicFrameSentResampled


\* The same for the frames that hold samples.
C27_NonEmptyFrame ==
  (MicWhileRunning /\ log[1].n > 0 /\ (variant = RTC => afe_handle_))
    => MicFrameSent(log)


\* the chunks process_received_audio_ was given by the handler that ran
Chunks(l) == {i \in DOMAIN l : l[i].k = "audio"}

\* the bytes of m mono samples in the speaker's format: 2*m sample pairs of
\* two 32-bit samples
SpeakerBytes(m) == (2 * m) * 2 * 4

\* C28: while the session is Running, a received chunk of m mono 16-bit
\* samples is offered to the speaker as 2*m stereo 32-bit sample pairs, 16*m
\* bytes, and each of these bytes is accepted by the speaker or queued.
C28_ChunkInSpeakerFormat ==
  \A i \in Chunks(log) :
    log[i].b = RUNNING
      => offered = SpeakerBytes(log[i].n) /\ rejected = 0 /\ ~crashed

\* The WebSocket class passes the bytes of the wire on and keeps each of them.
C28_WebSocketPassesWire ==
  variant = WS
    => \A i \in Chunks(log) :
         log[i].b = RUNNING
           => offered = BYTES_PER_SAMPLE * log[i].n /\ rejected = 0

\* The WebRTC class offers m sample pairs, when the speaker is running.
C28_WebRTCOffersHalf ==
  (variant = RTC /\ ~crashed)
    => \A i \in Chunks(log) : offered \in {0, 8 * log[i].n}


(* Draining the playback queue *)

\* The speaker took k bytes from the front of queue q and stopped inside a
\* chunk.
PartialAccept(q, k) ==
  \E j \in DOMAIN q :
    LET before == SumLen(SubSeq(q, 1, j - 1))
    IN before < k /\ k < before + Len(q[j])

\* Queue q after its first k bytes are removed, the rest of a chunk begun
\* staying where the chunk was.
RECURSIVE KeepFront(_, _)
KeepFront(q, k) ==
  IF q = <<>> \/ k = 0
  THEN q
  ELSE IF k >= Len(Head(q))
  THEN KeepFront(Tail(q), k - Len(Head(q)))
  ELSE <<SubSeq(Head(q), k + 1, Len(Head(q)))>> \o Tail(q)

\* loop() drained the queue and did nothing else to it
DrainPass == op' = "loop" /\ offered' = 0 /\ cleared' = 0 /\ ~crashed'

\* C29: when the speaker accepts only the first k bytes of the front chunk
\* during a drain, these k bytes are removed, the rest of the chunk stays at
\* the front, ahead of every other queued chunk, and the drain stops.
C29_RemainderStaysInFront ==
  [][(DrainPass /\ PartialAccept(audio_queue_, Len(played')))
       => audio_queue_' = KeepFront(audio_queue_, Len(played'))]_vars

\* The same for a queue of one chunk.
C29_SingleChunk ==
  [][(DrainPass /\ Len(audio_queue_) = 1
        /\ PartialAccept(audio_queue_, Len(played')))
       => audio_queue_' = KeepFront(audio_queue_, Len(played'))]_vars

\* The bytes stay in the queue, and the drain stops, whatever their place.
C29_RemainderKept ==
  [][(DrainPass /\ PartialAccept(audio_queue_, Len(played')))
       => SumLen(audio_queue_') = SumLen(audio_queue_) - Len(played')
          /\ Len(audio_queue_') = Len(KeepFront(audio_queue_, Len(played')))]_vars


(* The working buffer of the WebRTC class *)

\* the WebRTC class converted a chunk: the speaker was running
ChunkConverted ==
  variant = RTC /\ Chunks(log) # {} /\ (offered > 0 \/ crashed)

\* C30: in process_received_audio_ of the WebRTC class output_stereo_buffer_
\* is at least as large as the bytes the conversion writes into it and as the
\* bytes passed to speaker_->play (both are `offered`), and what is queued is
\* bytes of the chunk only, exactly those the speaker did not accept.
C30_BufferHoldsConvertedChunk ==
  ChunkConverted =>
    /\ ~crashed
    /\ output_stereo_buffer_ >= offered
    /\ \A j \in DOMAIN Waiting : Waiting[j] # StaleByte
    /\ rejected = 0 =>
         Len(played) + SumLen(audio_queue_) = held_pre + offered

\* The buffer has room for half of what is written and played.
C30_BufferHoldsHalf ==
  (ChunkConverted /\ ~crashed) => 2 * output_stereo_buffer_ >= offered

\* The buffer is too small for the first chunk converted.
C30_FirstChunkOverflows ==
  [][(output_stereo_buffer_ = 0 /\ ChunkConverted' /\ ~crashed')
       => output_stereo_buffer_' < offered']_vars


(* The resampler *)

\* the source indices read so far, and the output indices written
ReadIndices == {log[i].n : i \in {j \in DOMAIN log : log[j].k = "read"}}
WrittenIndices == {log[i].n : i \in {j \in DOMAIN log : log[j].k = "write"}}

\* C31: for every input length n the resampler writes exactly the
\* n*24000/16000 samples resampled_buffer_ was sized for - never beyond them
\* while it runs, all of them when it is done -, every source index it reads
\* lies in 0..n-1, and n = 0 makes no read and an empty output.
C31_ResamplerStaysInBounds ==
  /\ WrittenIndices \subseteq 0..(ResampledSamples(ResampleInput) - 1)
  /\ ReadIndices \subseteq 0..(ResampleInput - 1)
  /\ op = "resampled" =>
       WrittenIndices = 0..(ResampledSamples(ResampleInput) - 1)
  /\ ResampleInput = 0 => ReadIndices = {} /\ WrittenIndices = {}

\* An odd number of samples has gone through the resampler, the last output
\* sample coming from the last input sample alone.
C31_Witness ==
  /\ op = "resampled"
  /\ ResampleInput = 3
  /\ ResampleWritten = 4
  /\ \E i \in DOMAIN log :
       /\ log[i].k = "write" /\ log[i].n = 3
       /\ log[i - 1].k = "read" /\ log[i - 1].n = 2
       /\ log[i - 2].k = "write"


(* The sample conversions *)

\* C32: a 16-bit sample widened as the speaker path does - shifted left by
\* 16, the same in both channels, the low 16 bits zero - and narrowed as the
\* microphone path does - channel 0, arithmetic shift right by 16 - is the
\* sample again.
C32_WidenThenNarrowIsIdentity ==
  /\ op \in {"widened", "narrowed"} =>
       /\ log[2].k = "left" /\ log[3].k = "right"
       /\ log[2].n = log[3].n
       /\ log[2].n % 2^16 = 0
  /\ op = "narrowed" => log[4].k = "mono" /\ log[4].n = log[1].n

\* The most negative sample has made the round trip.
C32_Witness ==
  op = "narrowed" /\ log[1].n = -(2^15) /\ log[2].n = (-(2^15)) * 2^16


(* connect_websocket_() with a client still there *)

\* the connections the handler that ran tried to make
Connects(l) == {i \in DOMAIN l : l[i].k = "connect"}

\* start() has called connect_websocket_() while websocket_client_ was not
\* null: nothing was connected, the teardown and the retry were requested, and
\* there is time left for the retry.
RetryDue ==
  /\ variant = WS
  /\ op = "start"
  /\ handle
  /\ pending_disconnect_
  /\ reconnect_pending_
  /\ Connects(log) = {}
  /\ now + RECONNECT_DELAY_MS < MaxNow

\* loop() has created and started a client.
RetriedInLoop ==
  /\ op = "loop"
  /\ handle
  /\ \E i \in Connects(log) : log[i].b = "ok"

\* stop() was called, or start() in another situation.
CallerStepsIn == op = "stop" \/ (op = "start" /\ ~RetryDue)

\* C33: when connect_websocket_() is called while a client still exists, the
\* old client is torn down in loop() and, with loop() called again and again
\* and no further call of start() or stop(), a later loop() creates and starts
\* a new client.
C33_RetryAfterTeardown == RetryDue ~> (RetriedInLoop \/ CallerStepsIn)

\* The teardown that follows takes the request for the retry away.
C33_TeardownForgetsRetry ==
  [][(RetryDue /\ op' = "loop")
       => state_' = IDLE /\ ~handle' /\ ~reconnect_pending_'
          /\ ~pending_start_']_vars


(* One transport at a time *)

\* C34: no connect routine creates a client or a peer while the handle of an
\* earlier one is still non-null: a handle is never overwritten without
\* having been closed.
C34_NoHandleOverwritten ==
  \A i \in Connects(log) : log[i].b # "overwrite"

\* The WebSocket class alone: a client is only created when there is none.
C34_WebSocket ==
  [][(variant = WS /\ Connects(log') # {}) => ~handle]_vars


(* Idle *)

\* C35: whenever the state is Idle the transport handle is null and
\* reconnect_pending_ is false.
C35_IdleHasNoTransport ==
  state_ = IDLE => ~handle /\ ~reconnect_pending_

\* The session has been through a teardown that closed a connected transport
\* and is Idle again.
C35_Witness ==
  /\ state_ = IDLE
  /\ op = "loop"
  /\ pre = STOPPING
  /\ \E i \in DOMAIN log : log[i].k = "destroy"


(* The stopped event *)

\* the handler that ran fired the stopped trigger
StoppedFired(l) ==
  \E i \in DOMAIN l : l[i].k = "trigger" /\ l[i].a = "stopped"

\* C36: the stopped trigger fires, and the state returns to Idle through the
\* teardown of loop(), only if stop() was called before - here: since the
\* teardown before this one, which every call since the last start() is.
C36_StoppedOnlyAfterStop ==
  [][(StoppedFired(log') \/ (state_' = IDLE /\ state_ # IDLE))
       => stop_requested]_vars

\* The WebRTC class alone.
C36_WebRTC ==
  [][(variant = RTC /\ (StoppedFired(log') \/ (state_' = IDLE /\ state_ # IDLE)))
       => stop_requested]_vars


(* Tasks *)

\* the handler steps met a front() or pop() on the empty queue
QueueMisused ==
  \E i \in DOMAIN log : log[i].k = "ub" /\ log[i].a \in {"front", "pop"}

\* no byte was accepted by the speaker twice
PlayedOnce == \A i, j \in DOMAIN played : played[i] = played[j] => i = j

\* C37: under every interleaving of loop() on the main task with
\* process_received_audio_ on the client's task and with stop(), the bytes of
\* a queued chunk are offered to the speaker at most once, and front() and
\* pop() are never executed on an empty audio_queue_.
C37_QueueSafeUnderInterleaving ==
  variant = WS => PlayedOnce /\ ~QueueMisused

\* Each half alone.
C37_PlayedOnce == variant = WS => PlayedOnce
C37_NoEmptyFrontOrPop == variant = WS => ~QueueMisused

\* C38: under every interleaving of the microphone callback with the teardown
\* of loop(), the send is never issued on a handle loop() has destroyed.
C38_SendOnLiveHandle ==
  \A i \in DOMAIN log : log[i].k = "send" => log[i].a # "destroyed"

\* Each class alone.
C38_WebSocket == variant = WS => C38_SendOnLiveHandle
C38_WebRTC == variant = RTC => C38_SendOnLiveHandle


(* Microphone frames and the session *)

\* the transport was connected when the handler that ran was entered: no
\* handler that sends changes the handle or the link
Connected == handle /\ (variant = WS => link)

\* C39: microphone audio is sent to the transport only by the delivery of a
\* frame to a session that is Running and connected; a frame delivered in
\* any other state is dropped, and no other handler sends audio later.
C39_MicSentOnlyWhileRunning ==
  Sends(log) # {} => op = "mic" /\ pre = RUNNING /\ Connected

\* A frame came to a session that is being stopped and still has its
\* connection: nothing was sent.
C39_Witness ==
  /\ op = "mic"
  /\ pre = "Stopping"
  /\ Connected
  /\ log[1].n > 0
  /\ Sends(log) = {}

\* A frame was sent.
C39_Sent == op = "mic" /\ Sends(log) # {}


(* Auto-stop and the session *)

\* C40: when loop() auto-stops a session, last_speaker_audio_time_ was
\* recorded in that session: audio was received since the start() that began
\* it.
C40_AutoStopOnSessionAudio == (op = "loop" /\ AutoStopped) => heard

\* The WebSocket class alone.
C40_WebSocket == variant = WS => C40_AutoStopOnSessionAudio

\* A start() that is not refused leaves the session without a recorded time.
C40_StartForgetsAudioTime ==
  (op = "start" /\ log # <<>> /\ ~heard) => last_speaker_audio_time_ = 0

\* The same of the WebSocket class.
C40_WebSocketStartForgets == variant = WS => C40_StartForgetsAudioTime

====
